---- MODULE Spec2Model ----
(***************************************************************************)
(* A model of the rhai scripting engine (src/rhai/src/engine.rs) as it is  *)
(* driven by a host: the registry `fns`, the caller-owned `scope`, and the *)
(* tree-walking evaluator, translated case by case from eval_expr,         *)
(* eval_stmt, call_fn_raw and the dot protocol.                            *)
(*                                                                         *)
(* Values are records [t |-> type id, v |-> payload]; a Box<Any> clone is  *)
(* the value itself, since TLA+ values never share storage.  Programs are  *)
(* given as parse trees (the parser is not part of engine.rs): tuples      *)
(* tagged with the variant names of parser::Expr and parser::Stmt.         *)
(*                                                                         *)
(* Outcomes of an evaluation: Ok(v), Err(kind, text), the control signals  *)
(* Err("LoopBreak") / Err("Return") carrying a value, and Panic, the       *)
(* abort of a Rust `arr[idx]` out of bounds, of an `unwrap()` on None, of  *)
(* a division by zero, or of an i64 overflow in a build that checks it.    *)
(* Diverge stands for a call that never returns (loop fuel exhausted).     *)
(***************************************************************************)
EXTENDS Integers, Sequences, FiniteSets, TLC

VARIABLES
  fns,        \* Engine.fns: FnSpec -> callable
  type_names, \* Engine.type_names: type id -> display name
  my_scope,   \* the caller-owned Scope threaded through *_with_scope calls
  prev_scope, \* history: my_scope as it was when the last call started
  last,       \* history: the last host call (operation, source, out type)
  result,     \* what the last host call returned
  calls,      \* number of evaluation calls the host has made so far
  nreg,       \* number of registration steps of HostSetup the host has made
  aborted,    \* TRUE once a call has panicked: the thread is gone
  overflow_checks \* the build: TRUE when i64 overflow panics (debug), FALSE when it wraps

vars == <<fns, type_names, my_scope, prev_scope, last, result, calls, nreg, aborted,
         overflow_checks>>

(* ------------------------------ bounds -------------------------------- *)

MaxCalls == 2   \* host calls per engine
MaxIter == 4    \* iterations of one While/Loop before the call is taken to diverge
MaxDepth == 3   \* nesting of script function calls

(* ------------------------------ values -------------------------------- *)

IntV(i) == [t |-> "i64", v |-> i]
BoolV(b) == [t |-> "bool", v |-> b]
StrV(s) == [t |-> "string", v |-> s]
CharV(c) == [t |-> "char", v |-> c]
FloatV(f) == [t |-> "f64", v |-> f]
UnitV == [t |-> "unit", v |-> 0]
ArrV(a) == [t |-> "array", v |-> a]
TSV(x) == [t |-> "TS", v |-> [x |-> x]]

\* A TypeId is a hash the compiler makes of a type, other in every build; it
\* is held here as the name of the type, and its Debug text `TypeId(0x..)`,
\* the hash in digits, as TypeId(name).  "Box<Any>" is the TypeId of the box
\* that holds any value, whatever the value's type.
type_id(b) == b.t

(* ------------------------------ results ------------------------------- *)

Ok(v) == [k |-> "Ok", e |-> "", s |-> "", val |-> v]
Err(e, s) == [k |-> "Err", e |-> e, s |-> s, val |-> UnitV]
ErrReturn(v) == [k |-> "Err", e |-> "Return", s |-> "", val |-> v]
ErrLoopBreak == Err("LoopBreak", "")
Panic == [k |-> "Panic", e |-> "", s |-> "", val |-> UnitV]
Diverge == [k |-> "Diverge", e |-> "", s |-> "", val |-> UnitV]

IsOk(r) == r.k = "Ok"
\* Panic and Diverge unwind through every caller: nothing catches them.
Unwinds(r) == r.k \in {"Panic", "Diverge"}

\* What eval_expr / eval_stmt leave behind: the scope and the outcome.
R(sc, r) == [sc |-> sc, r |-> r]

(* -------------------------------- AST --------------------------------- *)

IntConst(i) == <<"IntConst", i>>
FloatConst(f) == <<"FloatConst", f>>
StringConst(s) == <<"StringConst", s>>
CharConst(c) == <<"CharConst", c>>
Identifier(id) == <<"Identifier", id>>
Index(id, e) == <<"Index", id, e>>
Array(es) == <<"Array", es>>
FnCall(name, es) == <<"FnCall", name, es>>
Assignment(lhs, rhs) == <<"Assignment", lhs, rhs>>
Dot(lhs, rhs) == <<"Dot", lhs, rhs>>
True == <<"True">>
False == <<"False">>
Unit == <<"Unit">>

SExpr(e) == <<"Expr", e>>
Block(ss) == <<"Block", ss>>
If(g, b) == <<"If", g, b>>
IfElse(g, b, eb) == <<"IfElse", g, b, eb>>
While(g, b) == <<"While", g, b>>
Loop(b) == <<"Loop", b>>
Break == <<"Break">>
Return == <<"Return">>
ReturnWithVal(e) == <<"ReturnWithVal", e>>
Var(name, init) == <<"Var", name, init>>   \* init: <<>> or <<e>>

FnDef(name, params, body) == [name |-> name, params |-> params, body |-> body]

\* What parse() hands to the engine: Ok((statements, fn defs)) or Err.
Parsed(os, fs) == [ok |-> TRUE, os |-> os, fns |-> fs]
ParseError == [ok |-> FALSE, os |-> <<>>, fns |-> <<>>]

(* ------------------------------ registry ------------------------------ *)

FnSpec(ident, args) == [ident |-> ident, args |-> args]
Some(tys) == <<"Some", tys>>
None == <<"None">>

\* FnIntExt::Ext: a native closure as fn_register wraps it (its body `nat`, the
\* parameter types `tys` it downcasts to); raw: a closure handed to
\* register_fn_raw as is.  FnIntExt::Int: a script function.
FnExt(nat, tys) == [kind |-> "Ext", nat |-> nat, tys |-> tys, raw |-> FALSE]
FnExtRaw(nat) == [kind |-> "Ext", nat |-> nat, tys |-> <<>>, raw |-> TRUE]
FnInt(f) == [kind |-> "Int", def |-> f]

\* An insert that keeps no other key.
InsertAlone(m, k, f) == [x \in {k} |-> f]

Insert(m, k, f) == [x \in DOMAIN m \cup {k} |-> IF x = k THEN f ELSE m[x]]

(* ------------------------------ natives ------------------------------- *)

\* Rust's `/` and `%` on i64 truncate toward zero.
div(x, y) ==
  LET Abs(z) == IF z < 0 THEN -z ELSE z
      Sgn(z) == IF z < 0 THEN -1 ELSE 1
  IN Sgn(x) * Sgn(y) * (Abs(x) \div Abs(y))
modulo(x, y) == x - y * div(x, y)

\* An i64 as the machine holds it: n bytes in two's complement, the lowest
\* first (i64::to_le_bytes for n = 8; n = 16 is the value sign-extended).
RECURSIVE to_le_bytes(_, _)
to_le_bytes(x, n) ==
  IF n = 0 THEN <<>> ELSE <<x % 256>> \o to_le_bytes(x \div 256, n - 1)

\* i64::from_le_bytes: the integer a word stands for; the top bit is the sign
\* (TLC computes it for the words that stand for an integer of 32 bits).
RECURSIVE from_le_bytes(_)
from_le_bytes(w) ==
  IF Len(w) = 1 THEN (IF w[1] >= 128 THEN w[1] - 256 ELSE w[1])
  ELSE w[1] + 256 * from_le_bytes(Tail(w))

\* i64::overflowing_mul on words: the low 64 bits of the product, and whether
\* the product itself is outside i64.  The product of two i64 fits 128 bits,
\* so it is computed in full from the sign-extended operands, column by column
\* with the carries; it is within i64 when its upper half repeats the sign bit.
overflowing_mul(a, b) ==
  LET ext(w) == w \o [i \in 1..8 |-> IF w[8] >= 128 THEN 255 ELSE 0]
      A == ext(a)
      B == ext(b)
      sum[k \in 1..16, i \in 0..16] ==
        IF i = 0 THEN 0 ELSE A[i] * B[k + 1 - i] + sum[k, i - 1]
      col[k \in 0..16] == IF k = 0 THEN 0 ELSE sum[k, k] + col[k - 1] \div 256
      product == [k \in 1..16 |-> col[k] % 256]
  IN [w |-> SubSeq(product, 1, 8),
      overflow |-> \E k \in 9..16 : product[k] # (IF product[8] >= 128 THEN 255 ELSE 0)]

\* fn pow_i64_i64(x, y) { x.pow(y as u32) }.  The cast keeps the low 32 bits
\* of y: a negative y becomes the u32 2^32 + y.  i64::pow squares and multiplies
\* along the bits of the exponent, lowest first:
\*   if exp == 0 { return 1 }
\*   loop { if exp & 1 == 1 { acc = acc * base; if exp == 1 { return acc } }
\*          exp /= 2; base = base * base }
\* and each `*` panics on overflow in a build with overflow checks and wraps
\* in one without.  e is y halved k times (rounding down), whose low 32 - k
\* bits are what is left of exp (a y of 32 bits is taken as it is, its bits
\* being those of the cast).
pow_i64_i64(x, y) ==
  LET RECURSIVE loop(_, _, _, _)
      loop(base, acc, e, k) ==
        LET odd == e % 2 = 1
            rest == IF k = 31 THEN 0 ELSE e \div 2
            m == IF odd THEN overflowing_mul(acc, base) ELSE [w |-> acc, overflow |-> FALSE]
            sq == overflowing_mul(base, base)
        IN IF m.overflow /\ overflow_checks THEN Panic
           ELSE IF odd /\ rest = 0 THEN Ok(IntV(from_le_bytes(m.w)))
           ELSE IF sq.overflow /\ overflow_checks THEN Panic
           ELSE loop(sq.w, m.w, e \div 2, k + 1)
      exp == IF -2147483647 - 1 <= y /\ y <= 2147483647 THEN y ELSE y % (65536 * 65536)
  IN IF exp = 0 THEN Ok(IntV(1))
     ELSE loop(to_le_bytes(x, 8), to_le_bytes(1, 8), exp, 0)

\* x & y, x | y, x ^ y on i64 (two's complement), bit by bit from the lowest:
\* 0 and -1 are the words of all zeros and of all ones.
RECURSIVE bitwise(_, _, _)
bitwise(op, x, y) ==
  LET bit(p, q) == CASE op = "binary_and" -> p /\ q
                     [] op = "binary_or" -> p \/ q
                     [] op = "binary_xor" -> p # q
  IN IF x \in {0, -1} /\ y \in {0, -1}
     THEN IF bit(x = -1, y = -1) THEN -1 ELSE 0
     ELSE 2 * bitwise(op, x \div 2, y \div 2)
          + (IF bit(x % 2 = 1, y % 2 = 1) THEN 1 ELSE 0)

\* x.shl(y), x.shr(y) on i64: a shift count outside 0..63 panics in a build
\* with overflow checks and is taken modulo 64 in one without.  The left shift
\* is the product with 2^n within the word: the bits shifted out are dropped
\* and bit 63 becomes the sign.  The right shift keeps the sign: it halves n
\* times, rounding down.
shift(op, x, y) ==
  LET n == y % 64
      bits == <<1, 2, 4, 8, 16, 32, 64, 128>>
      two_to_n == [i \in 1..8 |-> IF i = (n \div 8) + 1 THEN bits[(n % 8) + 1] ELSE 0]
      shr[z \in Int, k \in Nat] == IF k = 0 THEN z ELSE shr[z \div 2, k - 1]
      shifted == CASE op = "left_shift" ->
                        from_le_bytes(overflowing_mul(to_le_bytes(x, 8), two_to_n).w)
                   [] op = "right_shift" -> shr[x, n]
  IN IF (y < 0 \/ y >= 64) /\ overflow_checks THEN Panic ELSE Ok(IntV(shifted))

\* String's PartialOrd compares the bytes in order; Strings lists the string
\* values the engine is driven with here in that order.
Strings == <<"", "a", "aa", "ab", "abc", "b", "ba", "bb", "c">>

\* The f64 natives.  An f64 is held as the pair <<n, d>> of the fraction n / d
\* it is, in lowest terms with d > 0, a power of two; <<0, 1>> is 0.0 and
\* <<0, -1>> is -0.0; d = 0 gives +inf (n = 1), -inf (n = -1) and NaN (n = 0).
\* IEEE 754 arithmetic gives the double nearest to the exact result, ties to
\* the even significand: `round` (53 bits of significand, exponents -1022 to
\* 1023, subnormals below, the infinities above).  `y as i32` keeps the low 32
\* bits of y.  powi is the loop of compiler-builtins' __powidf2, squaring and
\* multiplying over the bits of |y| and inverting for y < 0, each product
\* rounded.  powf is libm's pow: it is given for whole y where x to the y is a
\* double or lies outside the doubles (TLC computes all of these where the
\* numbers met fit 32 bits).
F64Body(nat, a) ==
  LET x == a[1].v
      y == IF Len(a) < 2 \/ a[2].t # "f64" THEN <<0, 1>> ELSE a[2].v
      prec == 53
      emin == -1022
      emax == 1023
      nan == <<0, 0>>
      inf(sg) == <<sg, 0>>
      zero(sg) == <<0, sg>>
      isNaN(f) == f = <<0, 0>>
      isInf(f) == f[2] = 0 /\ f[1] # 0
      isZero(f) == f[1] = 0 /\ f[2] # 0
      sign(f) == IF isZero(f) THEN f[2] ELSE IF f[1] < 0 THEN -1 ELSE 1
      two[i \in Nat] == IF i = 0 THEN 1 ELSE 2 * two[i - 1]
      gcd[m \in Nat, n \in Nat] == IF n = 0 THEN m ELSE gcd[n, m % n]
      abs(z) == IF z < 0 THEN -z ELSE z
      \* the binary digits of z, and the zeros that end them (z > 0)
      bits[z \in Nat] == IF z = 0 THEN 0 ELSE 1 + bits[z \div 2]
      low[z \in Nat] == IF z % 2 = 1 THEN 0 ELSE 1 + low[z \div 2]
      pow2[z \in Nat] == z = 1 \/ (z > 1 /\ z % 2 = 0 /\ pow2[z \div 2])
      \* the pair of n / d, for n # 0 and d # 0
      norm(n, d) == LET g == gcd[abs(n), abs(d)]
                        sg == IF (n < 0) # (d < 0) THEN -1 ELSE 1
                    IN <<sg * (abs(n) \div g), abs(d) \div g>>
      \* f is a double: a significand of at most prec bits times a power of
      \* two in the range
      isDouble(f) ==
        \/ f[2] = 0
        \/ f[1] = 0 /\ f[2] \in {1, -1}
        \/ /\ f[1] # 0 /\ f[2] > 0 /\ pow2[f[2]]
           /\ gcd[abs(f[1]), f[2]] = 1
           /\ LET e == low[abs(f[1])] - (bits[f[2]] - 1)
                  m == bits[abs(f[1])] - low[abs(f[1])]
              IN m <= prec /\ e >= emin - (prec - 1) /\ m + e <= emax + 1
      \* the double nearest to n / d, for n # 0 and d # 0: e is the exponent of
      \* p / q = |n / d|, 2^e <= p / q < 2^(e + 1); the doubles around p / q
      \* are the multiples of 2^t, and p / q = (P / S) * 2^t
      scaled(m, t, sg) ==
        IF m = 0 THEN zero(sg)
        ELSE IF bits[m] + t > emax + 1 THEN inf(sg)
        ELSE IF t >= 0 THEN <<sg * m * two[t], 1>>
        ELSE norm(sg * m, two[-t])
      even(fl, rem, S) ==
        IF 2 * rem > S \/ (2 * rem = S /\ fl % 2 = 1) THEN fl + 1 ELSE fl
      nearest(P, S, t, sg) == scaled(even(P \div S, P % S, S), t, sg)
      quantum(p, q, t, sg) ==
        nearest(IF t >= 0 THEN p ELSE p * two[-t], IF t >= 0 THEN q * two[t] ELSE q, t, sg)
      exponent(p, q, s) ==
        IF (IF s >= 0 THEN p >= q * two[s] ELSE p * two[-s] >= q) THEN s ELSE s - 1
      inexact(p, q, e, sg) ==
        quantum(p, q, (IF e < emin THEN emin ELSE e) - (prec - 1), sg)
      nearer(f) ==
        IF isDouble(f) THEN f
        ELSE inexact(abs(f[1]), f[2], exponent(abs(f[1]), f[2], bits[abs(f[1])] - bits[f[2]]),
                     IF f[1] < 0 THEN -1 ELSE 1)
      round(n, d) == nearer(norm(n, d))
      fneg(f) == IF isNaN(f) THEN nan
                 ELSE IF isZero(f) THEN zero(-f[2]) ELSE <<-f[1], f[2]>>
      fadd(f, g) ==
        IF isNaN(f) \/ isNaN(g) THEN nan
        ELSE IF isInf(f) THEN (IF isInf(g) /\ g # f THEN nan ELSE f)
        ELSE IF isInf(g) THEN g
        ELSE IF isZero(f) /\ isZero(g) THEN zero(IF f[2] = -1 /\ g[2] = -1 THEN -1 ELSE 1)
        ELSE IF isZero(f) THEN g
        ELSE IF isZero(g) THEN f
        ELSE IF f[1] * g[2] + g[1] * f[2] = 0 THEN zero(1)
        ELSE round(f[1] * g[2] + g[1] * f[2], f[2] * g[2])
      fmul(f, g) ==
        IF isNaN(f) \/ isNaN(g) THEN nan
        ELSE IF (isZero(f) /\ isInf(g)) \/ (isInf(f) /\ isZero(g)) THEN nan
        ELSE IF isInf(f) \/ isInf(g) THEN inf(sign(f) * sign(g))
        ELSE IF isZero(f) \/ isZero(g) THEN zero(sign(f) * sign(g))
        ELSE round(f[1] * g[1], f[2] * g[2])
      fdiv(f, g) ==
        IF isNaN(f) \/ isNaN(g) THEN nan
        ELSE IF (isZero(f) /\ isZero(g)) \/ (isInf(f) /\ isInf(g)) THEN nan
        ELSE IF isInf(f) \/ isZero(g) THEN inf(sign(f) * sign(g))
        ELSE IF isInf(g) \/ isZero(f) THEN zero(sign(f) * sign(g))
        ELSE round(f[1] * g[2], f[2] * g[1])
      den(f) == IF isZero(f) THEN 1 ELSE f[2]
      less(f, g) ==
        /\ ~isNaN(f) /\ ~isNaN(g)
        /\ IF isInf(f) \/ isInf(g)
           THEN f # g /\ (f = inf(-1) \/ g = inf(1))
           ELSE f[1] * den(g) < g[1] * den(f)
      same(f, g) == ~isNaN(f) /\ ~isNaN(g) /\ ~less(f, g) /\ ~less(g, f)
      \* x.powi(k): mul *= b for each bit set in pow, b *= b between the bits
      loop[b \in Int \X Int, mul \in Int \X Int, pow \in Nat] ==
        LET m == IF pow % 2 = 1 THEN fmul(mul, b) ELSE mul
        IN IF pow \div 2 = 0 THEN m ELSE loop[fmul(b, b), m, pow \div 2]
      inverse(r, k) == IF k < 0 THEN fdiv(<<1, 1>>, r) ELSE r
      powi(k) == inverse(loop[x, <<1, 1>>, abs(k)], k)
      as_i32(z) == IF -2147483647 - 1 <= z /\ z <= 2147483647 THEN z
                   ELSE ((z + 32768 * 65536) % (65536 * 65536)) - 32768 * 65536
      \* x.powf(k) for whole k: of a NaN, an infinity or a zero; of a fraction,
      \* x to the k rounded, known where it is exact or outside the doubles
      of_special(k, sg) == IF k = 0 THEN <<1, 1>>
                           ELSE IF isNaN(x) THEN nan
                           ELSE IF isInf(x) = (k > 0) THEN inf(sg) ELSE zero(sg)
      frac[k \in Nat] == IF k = 0 THEN <<1, 1>> ELSE <<x[1] * frac[k - 1][1], x[2] * frac[k - 1][2]>>
      to_the(k) == IF k > 0 THEN frac[k] ELSE <<frac[-k][2], frac[-k][1]>>
      powf(k) == IF x[1] = 0 \/ x[2] = 0 \/ k = 0
                 THEN of_special(k, IF sign(x) < 0 /\ k % 2 = 1 THEN -1 ELSE 1)
                 ELSE round(to_the(k)[1], to_the(k)[2])
      known(r, k) == \/ x[1] = 0 \/ x[2] = 0 \/ k = 0
                     \/ isInf(r) \/ isZero(r)
                     \/ r = norm(to_the(k)[1], to_the(k)[2])
      num(f) == [args |-> a, r |-> Ok(FloatV(f))]
      bool(b) == [args |-> a, r |-> Ok(BoolV(b))]
  IN CASE isDouble(x) /\ isDouble(y) ->
       CASE nat = "add" -> num(fadd(x, y))
         [] nat = "sub" -> num(fadd(x, fneg(y)))
         [] nat = "mul" -> num(fmul(x, y))
         [] nat = "div" -> num(fdiv(x, y))
         [] nat = "neg" -> num(fneg(x))
         [] nat = "lt" -> bool(less(x, y))
         [] nat = "lte" -> bool(less(x, y) \/ same(x, y))
         [] nat = "gt" -> bool(less(y, x))
         [] nat = "gte" -> bool(less(y, x) \/ same(x, y))
         [] nat = "eq" -> bool(same(x, y))
         [] nat = "ne" -> bool(~same(x, y))
         [] nat = "pow_f64_i64" -> num(powi(as_i32(a[2].v)))
         [] nat = "pow_f64_f64" /\ y[2] \in {1, -1} /\ known(powf(y[1]), y[1]) -> num(powf(y[1]))

\* The host's own natives.  TestStruct { x: i64 } is the struct of
\* tests/arrays.rs.  Holder { items: Vec<Box<Any>>, ts: TestStruct } is a host
\* type with an array-valued and a struct-valued property, and raw_count a
\* closure given to register_fn_raw as is (it counts its arguments);
\* Holder::touch is a getter that changes its receiver (it updates ts, then
\* returns it), as a getter taking `&mut self` may: the
\* engine is written for any such host type, these are the ones it is driven
\* with here.
HolderV(items, ts) == [t |-> "Holder", v |-> [items |-> items, ts |-> ts]]

\* `self.x += 1000` is an i64 sum: outside i64 it panics in a build with
\* overflow checks, the receiver as it was, and wraps in one without.
HostBody(nat, a) ==
  LET ret(v) == [args |-> a, r |-> Ok(v)]
      two[i \in Nat] == IF i = 0 THEN 1 ELSE 2 * two[i - 1]
      fits(r) == (-2147483647 - 1 <= r /\ r <= 2147483647) \/ (-two[63] <= r /\ r < two[63])
      wrapping(r) == IF fits(r) THEN r ELSE ((r + two[63]) % two[64]) - two[63]
  IN CASE nat = "TestStruct::new" -> ret(TSV(1))
       [] nat = "TestStruct::get_x" -> ret(IntV(a[1].v.x))
       [] nat = "TestStruct::set_x" ->
            [args |-> <<TSV(a[2].v), a[2]>>, r |-> Ok(UnitV)]
       [] nat = "TestStruct::update" ->
            IF overflow_checks /\ ~fits(a[1].v.x + 1000) THEN [args |-> a, r |-> Panic]
            ELSE [args |-> <<TSV(wrapping(a[1].v.x + 1000))>>, r |-> Ok(UnitV)]
       [] nat = "Holder::new" -> ret(HolderV(<<IntV(1), IntV(2)>>, TSV(1)))
       [] nat = "Holder::get_items" -> ret(ArrV(a[1].v.items))
       [] nat = "Holder::get_ts" -> ret(a[1].v.ts)
       [] nat = "Holder::set_ts" ->
            [args |-> <<HolderV(a[1].v.items, a[2]), a[2]>>, r |-> Ok(UnitV)]
       [] nat = "Holder::touch" ->
            IF overflow_checks /\ ~fits(a[1].v.ts.v.x + 1000) THEN [args |-> a, r |-> Panic]
            ELSE [args |-> <<HolderV(a[1].v.items, TSV(wrapping(a[1].v.ts.v.x + 1000)))>>,
                  r |-> Ok(TSV(wrapping(a[1].v.ts.v.x + 1000)))]
       [] nat = "raw_count" -> ret(IntV(Len(a)))

\* The bodies of the native functions, applied to arguments of the right
\* types: the mutated arguments (a `&mut` receiver) and the outcome.
\* `+`, `-`, `*` and the unary `-` on i64 panic when the exact result is outside
\* i64 in a build with overflow checks and wrap in one without; i64::MIN / -1
\* and i64::MIN % -1 panic in every build, as a division by zero does.
NativeBody(nat, a) ==
  LET ret(v) == [args |-> a, r |-> Ok(v)]
      two[i \in Nat] == IF i = 0 THEN 1 ELSE 2 * two[i - 1]
      arith(r) ==
        IF (-2147483647 - 1 <= r /\ r <= 2147483647) \/ (-two[63] <= r /\ r < two[63])
        THEN ret(IntV(r))
        ELSE IF overflow_checks THEN [args |-> a, r |-> Panic]
        ELSE ret(IntV(((r + two[63]) % two[64]) - two[63]))
      isMin(x) == x < -2147483647 - 1 /\ x = -two[63]
      isInt == Len(a) > 0 /\ a[1].t = "i64"
      isStr == Len(a) > 0 /\ a[1].t = "string"
      isF64 == Len(a) > 0 /\ a[1].t = "f64"
      rank(s) == CHOOSE i \in 1..Len(Strings) : Strings[i] = s
  IN CASE isF64 /\ nat \in {"add", "sub", "mul", "div", "neg", "lt", "lte", "gt", "gte",
                             "eq", "ne", "pow_f64_f64", "pow_f64_i64"} ->
            F64Body(nat, a)
       [] nat = "add" /\ isInt -> arith(a[1].v + a[2].v)
       [] nat = "sub" /\ isInt -> arith(a[1].v - a[2].v)
       [] nat = "mul" /\ isInt -> arith(a[1].v * a[2].v)
       [] nat = "div" /\ isInt ->
            IF a[2].v = 0 \/ (a[2].v = -1 /\ isMin(a[1].v)) THEN [args |-> a, r |-> Panic]
            ELSE ret(IntV(div(a[1].v, a[2].v)))
       [] nat = "modulo" /\ isInt ->
            IF a[2].v = 0 \/ (a[2].v = -1 /\ isMin(a[1].v)) THEN [args |-> a, r |-> Panic]
            ELSE ret(IntV(modulo(a[1].v, a[2].v)))
       [] nat = "neg" /\ isInt -> arith(-a[1].v)
       [] nat = "pow_i64_i64" -> [args |-> a, r |-> pow_i64_i64(a[1].v, a[2].v)]
       [] nat \in {"binary_and", "binary_or", "binary_xor"} /\ isInt ->
            ret(IntV(bitwise(nat, a[1].v, a[2].v)))
       [] nat \in {"left_shift", "right_shift"} /\ isInt ->
            [args |-> a, r |-> shift(nat, a[1].v, a[2].v)]
       [] nat = "lt" /\ isInt -> ret(BoolV(a[1].v < a[2].v))
       [] nat = "lte" /\ isInt -> ret(BoolV(a[1].v <= a[2].v))
       [] nat = "gt" /\ isInt -> ret(BoolV(a[1].v > a[2].v))
       [] nat = "gte" /\ isInt -> ret(BoolV(a[1].v >= a[2].v))
       [] nat = "lt" /\ isStr -> ret(BoolV(rank(a[1].v) < rank(a[2].v)))
       [] nat = "lte" /\ isStr -> ret(BoolV(rank(a[1].v) <= rank(a[2].v)))
       [] nat = "gt" /\ isStr -> ret(BoolV(rank(a[1].v) > rank(a[2].v)))
       [] nat = "gte" /\ isStr -> ret(BoolV(rank(a[1].v) >= rank(a[2].v)))
       [] nat = "eq" /\ ~isF64 -> ret(BoolV(a[1].v = a[2].v))
       [] nat = "ne" /\ ~isF64 -> ret(BoolV(a[1].v # a[2].v))
       [] nat = "and" -> ret(BoolV(a[1].v /\ a[2].v))
       [] nat = "or" -> ret(BoolV(a[1].v \/ a[2].v))
       [] nat = "not" -> ret(BoolV(~a[1].v))
       [] nat = "concat" -> ret(StrV(a[1].v \o a[2].v))
       [] nat = "unit_eq" -> ret(BoolV(TRUE))
       [] OTHER -> HostBody(nat, a)

\* FnIntExt::Ext(f) => f(args).  The closure fn_register builds checks the
\* number of arguments and downcasts each to its parameter type first.
NativeCall(f, args) ==
  IF ~f.raw /\ (Len(args) # Len(f.tys) \/ \E i \in 1..Len(args) : args[i].t # f.tys[i])
  THEN [args |-> args, r |-> Err("ErrorFunctionArgMismatch", "")]
  ELSE NativeBody(f.nat, args)

(* --------------------------- default library -------------------------- *)

\* reg_op! / reg_cmp!: one (x, (y, y)) entry per type y; reg_un!: (x, (y)).
reg_op(x, op, ys) == {<<x, <<y, y>>, op>> : y \in ys}
reg_cmp(x, op, ys) == {<<x, <<y, y>>, op>> : y \in ys}
\* A reg_un! that registers under the two-argument key.
reg_un_as_binary(x, op, ys) == {<<x, <<y, y>>, op>> : y \in ys}
reg_un(x, op, ys) == {<<x, <<y>>, op>> : y \in ys}

DefaultLib ==
  LET Num6 == {"i32", "i64", "u32", "u64", "f32", "f64"}
      Int4 == {"i32", "i64", "u32", "u64"}
      Cmp6 == {"i32", "i64", "u32", "u64", "string", "f64"}
      Eq7 == {"i32", "i64", "u32", "u64", "bool", "string", "f64"}
  IN
  reg_op("+", "add", Num6) \cup reg_op("-", "sub", Num6)
  \cup reg_op("*", "mul", Num6) \cup reg_op("/", "div", Num6)
  \cup reg_cmp("<", "lt", Cmp6) \cup reg_cmp("<=", "lte", Cmp6)
  \cup reg_cmp(">", "gt", Cmp6) \cup reg_cmp(">=", "gte", Cmp6)
  \cup reg_cmp("==", "eq", Eq7) \cup reg_cmp("!=", "ne", Eq7)
  \cup reg_op("||", "or", {"bool"}) \cup reg_op("&&", "and", {"bool"})
  \cup reg_op("|", "binary_or", Int4) \cup reg_op("|", "or", {"bool"})
  \cup reg_op("&", "binary_and", Int4) \cup reg_op("&", "and", {"bool"})
  \cup reg_op("^", "binary_xor", Int4)
  \cup reg_op("<<", "left_shift", Int4) \cup reg_op(">>", "right_shift", Int4)
  \cup reg_op("%", "modulo", Int4)
  \cup {<<"~", <<"i64", "i64">>, "pow_i64_i64">>,
        <<"~", <<"f64", "f64">>, "pow_f64_f64">>,
        <<"~", <<"f64", "i64">>, "pow_f64_i64">>}
  \cup reg_un("-", "neg", {"i32", "i64", "f32", "f64"})
  \cup reg_un("!", "not", {"bool"})
  \cup {<<"+", <<"string", "string">>, "concat">>,
        <<"==", <<"unit", "unit">>, "unit_eq">>}

\* The registry register_default_lib leaves in a new engine (no key is
\* registered twice there, so the order of the inserts does not matter).
DefaultFns ==
  [k \in {FnSpec(e[1], Some(e[2])) : e \in DefaultLib} |->
     LET e == CHOOSE e \in DefaultLib : FnSpec(e[1], Some(e[2])) = k
     IN FnExt(e[3], e[2])]

\* register_type_name calls of register_default_lib; the later insert for
\* u64 ("usize") replaces the earlier ("u64"), and f32 is named "f64".
DefaultTypeNames ==
  [t \in {"i32", "u32", "i64", "u64", "f32", "f64", "string", "char", "bool", "array"} |->
     CASE t = "i32" -> "i32" [] t = "u32" -> "u32" [] t = "i64" -> "integer"
       [] t = "u64" -> "usize" [] t = "f32" -> "f64" [] t = "f64" -> "float"
       [] t = "string" -> "string" [] t = "char" -> "char"
       [] t = "bool" -> "boolean" [] t = "array" -> "array"]

(* ------------------------------ evaluator ----------------------------- *)

\* The engine as the evaluator reads it (&self); d is the number of nested
\* script calls still allowed before the call is taken to diverge.
Engine(f, tn, d) == [fns |-> f, type_names |-> tn, d |-> d]

\* The lookup is by the type of the boxed value (`<Any as Any>::type_id(&*b)`),
\* but the text for a type without a name formats `b.type_id()`, the TypeId of
\* Box<Any> itself: one and the same text whatever the value's type.
nice_type_name(self, b) ==
  LET box == "Box<Any>"   \* b.type_id() for b: &Box<Any>
  IN IF type_id(b) \in DOMAIN self.type_names THEN self.type_names[type_id(b)]
     ELSE "<unknown> TypeId(" \o box \o ")"

RECURSIVE join(_, _)
join(ss, sep) ==
  IF Len(ss) = 0 THEN ""
  ELSE IF Len(ss) = 1 THEN ss[1]
  ELSE ss[1] \o sep \o join(Tail(ss), sep)

TypesOf(args) == [i \in 1..Len(args) |-> type_id(args[i])]

\* A search from the oldest binding forwards.
rfind_first(scope, id) ==
  LET S == {i \in 1..Len(scope) : scope[i][1] = id}
  IN IF S = {} THEN 0 ELSE CHOOSE i \in S : \A j \in S : i <= j

\* scope.iter_mut().enumerate().rev().find(name == id): the position of the
\* most recently pushed binding of id, 0 when there is none.
rfind(scope, id) ==
  LET S == {i \in 1..Len(scope) : scope[i][1] = id}
  IN IF S = {} THEN 0 ELSE CHOOSE i \in S : \A j \in S : j <= i

\* `arr[idx as usize]` is in bounds; a negative i64 becomes a huge usize.
InBounds(arr, i) == 0 <= i /\ i < Len(arr)

\* A store through a value shared by every binding that holds it.
SetVal_shared(scope, p, v) ==
  [q \in DOMAIN scope |->
     IF scope[q][2] = scope[p][2] THEN <<scope[q][1], v>> ELSE scope[q]]

\* A store that drops the binding and pushes it anew at the end.
SetVal_moved_to_end(scope, p, v) ==
  Append(SubSeq(scope, 1, p - 1) \o SubSeq(scope, p + 1, Len(scope)), <<scope[p][1], v>>)

SetVal(scope, p, v) == [scope EXCEPT ![p] = <<@[1], v>>]
\* An element store that always writes the first slot.
SetCell_first(scope, p, i, v) ==
  [scope EXCEPT ![p] = <<@[1], ArrV([@[2].v EXCEPT ![1] = v])>>]

SetCell(scope, p, i, v) ==
  [scope EXCEPT ![p] = <<@[1], ArrV([@[2].v EXCEPT ![i + 1] = v])>>]

\* The evaluator's functions call one another; every such call goes through
\* the one recursive operator ev, which hands it to the function named.
RECURSIVE ev(_)
rec_eval_expr(p1, p2, p3) == ev(<<"eval_expr", p1, p2, p3>>)
rec_eval_stmt(p1, p2, p3) == ev(<<"eval_stmt", p1, p2, p3>>)
rec_call_fn_raw(p1, p2, p3) == ev(<<"call_fn_raw", p1, p2, p3>>)
rec_eval_items(p1, p2, p3) == ev(<<"eval_items", p1, p2, p3>>)
rec_array_value(p1, p2, p3, p4) == ev(<<"array_value", p1, p2, p3, p4>>)
rec_assign(p1, p2, p3, p4) == ev(<<"assign", p1, p2, p3, p4>>)
rec_get_dot_val_helper(p1, p2, p3, p4) == ev(<<"get_dot_val_helper", p1, p2, p3, p4>>)
rec_get_dot_val(p1, p2, p3, p4) == ev(<<"get_dot_val", p1, p2, p3, p4>>)
rec_set_dot_val_helper(p1, p2, p3, p4) == ev(<<"set_dot_val_helper", p1, p2, p3, p4>>)
rec_set_dot_val(p1, p2, p3, p4, p5) == ev(<<"set_dot_val", p1, p2, p3, p4, p5>>)
rec_block_loop(p1, p2, p3, p4) == ev(<<"block_loop", p1, p2, p3, p4>>)
rec_while_loop(p1, p2, p3, p4, p5) == ev(<<"while_loop", p1, p2, p3, p4, p5>>)
rec_loop_loop(p1, p2, p3, p4) == ev(<<"loop_loop", p1, p2, p3, p4>>)
rec_top_loop(p1, p2, p3, p4) == ev(<<"top_loop", p1, p2, p3, p4>>)
rec_eval_with_scope(p1, p2, p3, p4) == ev(<<"eval_with_scope", p1, p2, p3, p4>>)
rec_consume_with_scope(p1, p2, p3) == ev(<<"consume_with_scope", p1, p2, p3>>)
rec_call_fn(p1, p2, p3, p4) == ev(<<"call_fn", p1, p2, p3, p4>>)

\* A script call that evaluates the body with no parameter bound.
call_script_unbound(self, f, args) ==
  [args |-> args, r |-> rec_eval_stmt([self EXCEPT !.d = @ - 1], <<>>, f.body).r]

\* A script call that yields () whenever its body ends without `return`.
call_script_unit_at_end(self, f, args) ==
  IF self.d = 0 THEN [args |-> args, r |-> Diverge]
  ELSE LET n == IF Len(f.params) < Len(args) THEN Len(f.params) ELSE Len(args)
           sc == [i \in 1..n |-> <<f.params[i], args[i]>>]
           b == rec_eval_stmt([self EXCEPT !.d = @ - 1], sc, f.body)
       IN [args |-> args,
           r |-> IF b.r.k = "Err" /\ b.r.e = "Return" THEN Ok(b.r.val)
                 ELSE IF IsOk(b.r) THEN Ok(UnitV) ELSE b.r]

\* A script call that refuses a number of arguments other than that of the
\* parameters.
call_script_checks_arity(self, f, args) ==
  IF self.d = 0 THEN [args |-> args, r |-> Diverge]
  ELSE IF Len(f.params) # Len(args)
  THEN [args |-> args, r |-> Err("ErrorFunctionArgMismatch", "")]
  ELSE LET sc == [i \in 1..Len(args) |-> <<f.params[i], args[i]>>]
           b == rec_eval_stmt([self EXCEPT !.d = @ - 1], sc, f.body)
       IN [args |-> args,
           r |-> IF b.r.k = "Err" /\ b.r.e = "Return" THEN Ok(b.r.val) ELSE b.r]

\* A script call that catches LoopBreak as it catches Return.
call_script_catches_break(self, f, args) ==
  IF self.d = 0 THEN [args |-> args, r |-> Diverge]
  ELSE LET n == IF Len(f.params) < Len(args) THEN Len(f.params) ELSE Len(args)
           sc == [i \in 1..n |-> <<f.params[i], args[i]>>]
           b == rec_eval_stmt([self EXCEPT !.d = @ - 1], sc, f.body)
       IN [args |-> args,
           r |-> IF b.r.k = "Err" /\ b.r.e = "Return" THEN Ok(b.r.val)
                 ELSE IF b.r = ErrLoopBreak THEN Ok(UnitV) ELSE b.r]

\* A script call that hands the final values of its parameters back to the
\* arguments.
call_script_by_reference(self, f, args) ==
  IF self.d = 0 THEN [args |-> args, r |-> Diverge]
  ELSE LET n == IF Len(f.params) < Len(args) THEN Len(f.params) ELSE Len(args)
           sc == [i \in 1..n |-> <<f.params[i], args[i]>>]
           b == rec_eval_stmt([self EXCEPT !.d = @ - 1], sc, f.body)
       IN [args |-> [i \in 1..Len(args) |-> IF i <= n THEN b.sc[i][2] ELSE args[i]],
           r |-> IF b.r.k = "Err" /\ b.r.e = "Return" THEN Ok(b.r.val) ELSE b.r]

\* FnIntExt::Int(f): a fresh scope of the parameters zipped with clones of
\* the arguments, the body evaluated in it, Err(Return(x)) turned into Ok(x).
call_script(self, f, args) ==
  IF self.d = 0 THEN [args |-> args, r |-> Diverge]
  ELSE LET n == IF Len(f.params) < Len(args) THEN Len(f.params) ELSE Len(args)
           sc == [i \in 1..n |-> <<f.params[i], args[i]>>]
           b == rec_eval_stmt([self EXCEPT !.d = @ - 1], sc, f.body)
       IN [args |-> args,
           r |-> IF b.r.k = "Err" /\ b.r.e = "Return" THEN Ok(b.r.val) ELSE b.r]

invoke(self, f, args) ==
  IF f.kind = "Ext" THEN NativeCall(f, args) ELSE call_script(self, f.def, args)

\* The entry found for (ident, Some(types)), else the one for (ident, None),
\* else ErrorFunctionNotFound("ident (t1,t2)").
call_fn_raw(self, ident, args) ==
  LET spec == FnSpec(ident, Some(TypesOf(args)))
      spec1 == FnSpec(ident, None)
      typenames == [i \in 1..Len(args) |-> nice_type_name(self, args[i])]
  IN IF spec \in DOMAIN self.fns THEN invoke(self, self.fns[spec], args)
     ELSE IF spec1 \in DOMAIN self.fns THEN invoke(self, self.fns[spec1], args)
     ELSE [args |-> args,
           r |-> Err("ErrorFunctionNotFound",
                     ident \o " (" \o join(typenames, ",") \o ")")]

\* args.iter().map(eval_expr).collect::<Result<Vec<_>, _>>(): left to right,
\* stopping at the first failure.
\* An evaluation of the items from the last to the first.
eval_items_right_to_left(self, scope, es) ==
  IF Len(es) = 0 THEN [sc |-> scope, r |-> Ok(UnitV), vals |-> <<>>]
  ELSE LET t == rec_eval_items(self, scope, Tail(es))
       IN IF ~IsOk(t.r) THEN t
          ELSE LET h == rec_eval_expr(self, t.sc, Head(es))
               IN IF ~IsOk(h.r) THEN [sc |-> h.sc, r |-> h.r, vals |-> <<>>]
                  ELSE [sc |-> h.sc, r |-> h.r, vals |-> <<h.r.val>> \o t.vals]

eval_items(self, scope, es) ==
  IF Len(es) = 0 THEN [sc |-> scope, r |-> Ok(UnitV), vals |-> <<>>]
  ELSE LET h == rec_eval_expr(self, scope, Head(es))
       IN IF ~IsOk(h.r) THEN [sc |-> h.sc, r |-> h.r, vals |-> <<>>]
          ELSE LET t == rec_eval_items(self, h.sc, Tail(es))
               IN [sc |-> t.sc, r |-> t.r, vals |-> <<h.r.val>> \o t.vals]

\* An array_value that looks the variable up before it evaluates the index.
array_value_binding_first(self, scope, id, idx) ==
  LET fail(sc, r) == [sc |-> sc, r |-> r, idx_sc |-> 0, idx |-> 0, val |-> UnitV]
      p == rfind(scope, id)
      e == rec_eval_expr(self, scope, idx)
  IN IF p = 0 THEN fail(scope, Err("ErrorVariableNotFound", id))
     ELSE IF scope[p][2].t # "array" THEN fail(scope, Err("ErrorIndexMismatch", ""))
     ELSE IF ~IsOk(e.r) THEN fail(e.sc, e.r)
     ELSE IF e.r.val.t # "i64" THEN fail(e.sc, Err("ErrorIndexMismatch", ""))
     ELSE IF ~InBounds(e.sc[p][2].v, e.r.val.v) THEN fail(e.sc, Panic)
     ELSE [sc |-> e.sc, r |-> Ok(UnitV), idx_sc |-> p, idx |-> e.r.val.v,
           val |-> e.sc[p][2].v[e.r.val.v + 1]]

array_value(self, scope, id, idx) ==
  LET fail(sc, r) == [sc |-> sc, r |-> r, idx_sc |-> 0, idx |-> 0, val |-> UnitV]
      e == rec_eval_expr(self, scope, idx)
  IN IF ~IsOk(e.r) THEN fail(e.sc, e.r)
     ELSE IF e.r.val.t # "i64" THEN fail(e.sc, Err("ErrorIndexMismatch", ""))
     ELSE LET i == e.r.val.v
              p == rfind(e.sc, id)
          IN IF p = 0 THEN fail(e.sc, Err("ErrorVariableNotFound", id))
             ELSE IF e.sc[p][2].t # "array"
             THEN fail(e.sc, Err("ErrorIndexMismatch", ""))
             ELSE IF ~InBounds(e.sc[p][2].v, i) THEN fail(e.sc, Panic)
             ELSE [sc |-> e.sc, r |-> Ok(UnitV), idx_sc |-> p, idx |-> i,
                   val |-> e.sc[p][2].v[i + 1]]

\* A get walk that writes the intermediate back through set$p, as the set
\* walk does.
get_dot_val_helper_sets_back(self, scope, this_ptr, dot_rhs) ==
  LET out(sc, th, r) == [sc |-> sc, this |-> th, r |-> r]
      malformed == out(scope, this_ptr, Err("InternalErrorMalformedDotExpression", ""))
  IN CASE dot_rhs[1] = "FnCall" ->
            LET a == rec_eval_items(self, scope, dot_rhs[3])
            IN IF ~IsOk(a.r) THEN out(a.sc, this_ptr, a.r)
               ELSE LET c == rec_call_fn_raw(self, dot_rhs[2], <<this_ptr>> \o a.vals)
                    IN out(a.sc, c.args[1], c.r)
       [] dot_rhs[1] = "Identifier" ->
            LET c == rec_call_fn_raw(self, "get$" \o dot_rhs[2], <<this_ptr>>)
            IN out(scope, c.args[1], c.r)
       [] dot_rhs[1] = "Index" ->
            LET i == rec_eval_expr(self, scope, dot_rhs[3])
            IN IF ~IsOk(i.r) THEN out(i.sc, this_ptr, i.r)
               ELSE LET c == rec_call_fn_raw(self, "get$" \o dot_rhs[2], <<this_ptr>>)
                    IN IF ~IsOk(c.r) THEN out(i.sc, c.args[1], c.r)
                       ELSE IF c.r.val.t # "array" \/ i.r.val.t # "i64"
                       THEN out(i.sc, c.args[1], Err("ErrorIndexMismatch", ""))
                       ELSE IF ~InBounds(c.r.val.v, i.r.val.v)
                       THEN out(i.sc, c.args[1], Panic)
                       ELSE out(i.sc, c.args[1], Ok(c.r.val.v[i.r.val.v + 1]))
       [] dot_rhs[1] = "Dot" ->
            IF dot_rhs[2][1] = "Identifier"
            THEN LET c == rec_call_fn_raw(self, "get$" \o dot_rhs[2][2], <<this_ptr>>)
                 IN IF ~IsOk(c.r) THEN out(scope, c.args[1], c.r)
                    ELSE LET h == rec_get_dot_val_helper(self, scope, c.r.val, dot_rhs[3])
                             w == rec_call_fn_raw(self, "set$" \o dot_rhs[2][2],
                                                  <<c.args[1], h.this>>)
                         IN out(h.sc, IF IsOk(w.r) THEN w.args[1] ELSE c.args[1], h.r)
            ELSE malformed
       [] OTHER -> malformed

get_dot_val_helper(self, scope, this_ptr, dot_rhs) ==
  LET out(sc, th, r) == [sc |-> sc, this |-> th, r |-> r]
      malformed == out(scope, this_ptr, Err("InternalErrorMalformedDotExpression", ""))
  IN CASE dot_rhs[1] = "FnCall" ->
            LET a == rec_eval_items(self, scope, dot_rhs[3])
            IN IF ~IsOk(a.r) THEN out(a.sc, this_ptr, a.r)
               ELSE LET c == rec_call_fn_raw(self, dot_rhs[2], <<this_ptr>> \o a.vals)
                    IN out(a.sc, c.args[1], c.r)
       [] dot_rhs[1] = "Identifier" ->
            LET c == rec_call_fn_raw(self, "get$" \o dot_rhs[2], <<this_ptr>>)
            IN out(scope, c.args[1], c.r)
       [] dot_rhs[1] = "Index" ->
            LET i == rec_eval_expr(self, scope, dot_rhs[3])
            IN IF ~IsOk(i.r) THEN out(i.sc, this_ptr, i.r)
               ELSE LET c == rec_call_fn_raw(self, "get$" \o dot_rhs[2], <<this_ptr>>)
                    IN IF ~IsOk(c.r) THEN out(i.sc, c.args[1], c.r)
                       ELSE IF c.r.val.t # "array" \/ i.r.val.t # "i64"
                       THEN out(i.sc, c.args[1], Err("ErrorIndexMismatch", ""))
                       ELSE IF ~InBounds(c.r.val.v, i.r.val.v)
                       THEN out(i.sc, c.args[1], Panic)
                       ELSE out(i.sc, c.args[1], Ok(c.r.val.v[i.r.val.v + 1]))
       [] dot_rhs[1] = "Dot" ->
            IF dot_rhs[2][1] = "Identifier"
            THEN LET c == rec_call_fn_raw(self, "get$" \o dot_rhs[2][2], <<this_ptr>>)
                 IN IF ~IsOk(c.r) THEN out(scope, c.args[1], c.r)
                    ELSE LET h == rec_get_dot_val_helper(self, scope, c.r.val, dot_rhs[3])
                         IN out(h.sc, c.args[1], h.r)
            ELSE malformed
       [] OTHER -> malformed

\* `scope[sc_idx].1 = target`, and for an indexed receiver
\* `scope[sc_idx].1.downcast_mut::<Vec<_>>().unwrap()[idx] = target`, which
\* aborts when the binding no longer holds an array that long.
\* A variable receiver whose scratch copy is dropped instead of stored.
write_back_dropped(sc, p, target) == R(sc, Ok(UnitV))

write_back(sc, p, target) == R(SetVal(sc, p, target), Ok(UnitV))
\* An array receiver whose scratch copy is dropped instead of stored.
write_back_cell_dropped(sc, p, i, target) == R(sc, Ok(UnitV))

write_back_cell(sc, p, i, target) ==
  IF sc[p][2].t # "array" \/ ~InBounds(sc[p][2].v, i) THEN R(sc, Panic)
  ELSE R(SetCell(sc, p, i, target), Ok(UnitV))

\* A dot expression that stores the scratch copy back only when the walk
\* succeeded.
get_dot_val_write_back_on_success(self, scope, dot_lhs, dot_rhs) ==
  CASE dot_lhs[1] = "Identifier" ->
         LET p == rfind(scope, dot_lhs[2])
         IN IF p = 0 THEN R(scope, Err("ErrorVariableNotFound", dot_lhs[2]))
            ELSE LET h == rec_get_dot_val_helper(self, scope, scope[p][2], dot_rhs)
                 IN IF ~IsOk(h.r) THEN R(h.sc, h.r)
                    ELSE R(write_back(h.sc, p, h.this).sc, h.r)
    [] dot_lhs[1] = "Index" ->
         LET a == rec_array_value(self, scope, dot_lhs[2], dot_lhs[3])
         IN IF ~IsOk(a.r) THEN R(a.sc, a.r)
            ELSE LET h == rec_get_dot_val_helper(self, a.sc, a.val, dot_rhs)
                     w == write_back_cell(h.sc, a.idx_sc, a.idx, h.this)
                 IN IF ~IsOk(h.r) THEN R(h.sc, h.r)
                    ELSE IF Unwinds(w.r) THEN w
                    ELSE R(w.sc, h.r)
    [] OTHER -> R(scope, Err("InternalErrorMalformedDotExpression", ""))

\* A dot expression that leaves a variable as the arguments changed it
\* instead of storing the scratch copy over it.
get_dot_val_keeps_later_value(self, scope, dot_lhs, dot_rhs) ==
  CASE dot_lhs[1] = "Identifier" ->
         LET p == rfind(scope, dot_lhs[2])
         IN IF p = 0 THEN R(scope, Err("ErrorVariableNotFound", dot_lhs[2]))
            ELSE LET h == rec_get_dot_val_helper(self, scope, scope[p][2], dot_rhs)
                 IN IF Unwinds(h.r) \/ h.sc[p] # scope[p] THEN R(h.sc, h.r)
                    ELSE R(write_back(h.sc, p, h.this).sc, h.r)
    [] dot_lhs[1] = "Index" ->
         LET a == rec_array_value(self, scope, dot_lhs[2], dot_lhs[3])
         IN IF ~IsOk(a.r) THEN R(a.sc, a.r)
            ELSE LET h == rec_get_dot_val_helper(self, a.sc, a.val, dot_rhs)
                     w == write_back_cell(h.sc, a.idx_sc, a.idx, h.this)
                 IN IF Unwinds(h.r) \/ h.sc[a.idx_sc] # a.sc[a.idx_sc] THEN R(h.sc, h.r)
                    ELSE IF Unwinds(w.r) THEN w
                    ELSE R(w.sc, h.r)
    [] OTHER -> R(scope, Err("InternalErrorMalformedDotExpression", ""))

get_dot_val(self, scope, dot_lhs, dot_rhs) ==
  CASE dot_lhs[1] = "Identifier" ->
         LET p == rfind(scope, dot_lhs[2])
         IN IF p = 0 THEN R(scope, Err("ErrorVariableNotFound", dot_lhs[2]))
            ELSE LET h == rec_get_dot_val_helper(self, scope, scope[p][2], dot_rhs)
                 IN IF Unwinds(h.r) THEN R(h.sc, h.r)
                    ELSE R(write_back(h.sc, p, h.this).sc, h.r)
    [] dot_lhs[1] = "Index" ->
         LET a == rec_array_value(self, scope, dot_lhs[2], dot_lhs[3])
         IN IF ~IsOk(a.r) THEN R(a.sc, a.r)
            ELSE LET h == rec_get_dot_val_helper(self, a.sc, a.val, dot_rhs)
                     w == write_back_cell(h.sc, a.idx_sc, a.idx, h.this)
                 IN IF Unwinds(h.r) THEN R(h.sc, h.r)
                    ELSE IF Unwinds(w.r) THEN w
                    ELSE R(w.sc, h.r)
    [] OTHER -> R(scope, Err("InternalErrorMalformedDotExpression", ""))

\* A helper that does not write the changed intermediate back with set$p.
set_dot_val_helper_no_set_back(self, this_ptr, dot_rhs, source_val) ==
  LET out(th, r) == [this |-> th, r |-> r]
      malformed == out(this_ptr, Err("InternalErrorMalformedDotExpression", ""))
  IN CASE dot_rhs[1] = "Identifier" ->
            LET c == rec_call_fn_raw(self, "set$" \o dot_rhs[2], <<this_ptr, source_val>>)
            IN out(c.args[1], c.r)
       [] dot_rhs[1] = "Dot" ->
            IF dot_rhs[2][1] = "Identifier"
            THEN LET g == rec_call_fn_raw(self, "get$" \o dot_rhs[2][2], <<this_ptr>>)
                 IN IF ~IsOk(g.r) THEN out(g.args[1], g.r)
                    ELSE out(g.args[1],
                             rec_set_dot_val_helper(self, g.r.val, dot_rhs[3], source_val).r)
            ELSE malformed
       [] OTHER -> malformed

set_dot_val_helper(self, this_ptr, dot_rhs, source_val) ==
  LET out(th, r) == [this |-> th, r |-> r]
      malformed == out(this_ptr, Err("InternalErrorMalformedDotExpression", ""))
  IN CASE dot_rhs[1] = "Identifier" ->
            LET c == rec_call_fn_raw(self, "set$" \o dot_rhs[2], <<this_ptr, source_val>>)
            IN out(c.args[1], c.r)
       [] dot_rhs[1] = "Dot" ->
            IF dot_rhs[2][1] = "Identifier"
            THEN LET g == rec_call_fn_raw(self, "get$" \o dot_rhs[2][2], <<this_ptr>>)
                 IN IF ~IsOk(g.r) THEN out(g.args[1], g.r)
                    ELSE LET s == rec_set_dot_val_helper(self, g.r.val, dot_rhs[3], source_val)
                         IN IF ~IsOk(s.r) THEN out(g.args[1], s.r)
                            ELSE LET c == rec_call_fn_raw(self, "set$" \o dot_rhs[2][2],
                                                      <<g.args[1], s.this>>)
                                 IN out(c.args[1], c.r)
            ELSE malformed
       [] OTHER -> malformed

\* A dot assignment that calls no setter and stores nothing.
set_dot_val_skipped(self, scope, dot_lhs, dot_rhs, source_val) == R(scope, Ok(UnitV))

set_dot_val(self, scope, dot_lhs, dot_rhs, source_val) ==
  CASE dot_lhs[1] = "Identifier" ->
         LET p == rfind(scope, dot_lhs[2])
         IN IF p = 0 THEN R(scope, Err("ErrorVariableNotFound", dot_lhs[2]))
            ELSE LET h == rec_set_dot_val_helper(self, scope[p][2], dot_rhs, source_val)
                 IN IF Unwinds(h.r) THEN R(scope, h.r)
                    ELSE R(write_back(scope, p, h.this).sc, h.r)
    [] dot_lhs[1] = "Index" ->
         LET a == rec_array_value(self, scope, dot_lhs[2], dot_lhs[3])
         IN IF ~IsOk(a.r) THEN R(a.sc, a.r)
            ELSE LET h == rec_set_dot_val_helper(self, a.val, dot_rhs, source_val)
                     w == write_back_cell(a.sc, a.idx_sc, a.idx, h.this)
                 IN IF Unwinds(h.r) THEN R(a.sc, h.r)
                    ELSE IF Unwinds(w.r) THEN w
                    ELSE R(w.sc, h.r)
    [] OTHER -> R(scope, Err("InternalErrorMalformedDotExpression", ""))

\* The `match **id` of Expr::Assignment, once rhs has been evaluated.
\* An assignment that declares the variable when it is not bound.
assign_declares(self, scope, lhs, rhs_val) ==
  CASE lhs[1] = "Identifier" ->
         LET p == rfind(scope, lhs[2])
         IN IF p = 0 THEN R(Append(scope, <<lhs[2], rhs_val>>), Ok(UnitV))
            ELSE R(SetVal(scope, p, rhs_val), Ok(UnitV))
    [] lhs[1] = "Index" ->
         LET e == rec_eval_expr(self, scope, lhs[3])
         IN IF ~IsOk(e.r) THEN e
            ELSE LET p == rfind(e.sc, lhs[2])
                 IN IF p = 0 THEN R(e.sc, Err("ErrorVariableNotFound", lhs[2]))
                    ELSE IF e.r.val.t # "i64" \/ e.sc[p][2].t # "array"
                    THEN R(e.sc, Err("ErrorIndexMismatch", ""))
                    ELSE IF ~InBounds(e.sc[p][2].v, e.r.val.v) THEN R(e.sc, Panic)
                    ELSE R(SetCell(e.sc, p, e.r.val.v, rhs_val), Ok(UnitV))
    [] lhs[1] = "Dot" -> rec_set_dot_val(self, scope, lhs[2], lhs[3], rhs_val)
    [] OTHER -> R(scope, Err("ErrorAssignmentToUnknownLHS", ""))

assign(self, scope, lhs, rhs_val) ==
  CASE lhs[1] = "Identifier" ->
         LET p == rfind(scope, lhs[2])
         IN IF p = 0 THEN R(scope, Err("ErrorVariableNotFound", lhs[2]))
            ELSE R(SetVal(scope, p, rhs_val), Ok(UnitV))
    [] lhs[1] = "Index" ->
         LET e == rec_eval_expr(self, scope, lhs[3])
         IN IF ~IsOk(e.r) THEN e
            ELSE LET p == rfind(e.sc, lhs[2])
                 IN IF p = 0 THEN R(e.sc, Err("ErrorVariableNotFound", lhs[2]))
                    ELSE IF e.r.val.t # "i64" \/ e.sc[p][2].t # "array"
                    THEN R(e.sc, Err("ErrorIndexMismatch", ""))
                    ELSE IF ~InBounds(e.sc[p][2].v, e.r.val.v) THEN R(e.sc, Panic)
                    ELSE R(SetCell(e.sc, p, e.r.val.v, rhs_val), Ok(UnitV))
    [] lhs[1] = "Dot" -> rec_set_dot_val(self, scope, lhs[2], lhs[3], rhs_val)
    [] OTHER -> R(scope, Err("ErrorAssignmentToUnknownLHS", ""))

eval_expr(self, scope, expr) ==
  CASE expr[1] = "IntConst" -> R(scope, Ok(IntV(expr[2])))
    [] expr[1] = "FloatConst" -> R(scope, Ok(FloatV(expr[2])))
    [] expr[1] = "StringConst" -> R(scope, Ok(StrV(expr[2])))
    [] expr[1] = "CharConst" -> R(scope, Ok(CharV(expr[2])))
    [] expr[1] = "Identifier" ->
         LET p == rfind(scope, expr[2])
         IN IF p = 0 THEN R(scope, Err("ErrorVariableNotFound", expr[2]))
            ELSE R(scope, Ok(scope[p][2]))
    [] expr[1] = "Index" ->
         LET a == rec_array_value(self, scope, expr[2], expr[3])
         IN R(a.sc, IF IsOk(a.r) THEN Ok(a.val) ELSE a.r)
    [] expr[1] = "Assignment" ->
         LET rhs == rec_eval_expr(self, scope, expr[3])
         IN IF ~IsOk(rhs.r) THEN rhs
            ELSE rec_assign(self, rhs.sc, expr[2], rhs.r.val)
    [] expr[1] = "Dot" -> rec_get_dot_val(self, scope, expr[2], expr[3])
    [] expr[1] = "Array" ->
         LET a == rec_eval_items(self, scope, expr[2])
         IN R(a.sc, IF IsOk(a.r) THEN Ok(ArrV(a.vals)) ELSE a.r)
    [] expr[1] = "FnCall" ->
         LET a == rec_eval_items(self, scope, expr[3])
         IN IF ~IsOk(a.r) THEN R(a.sc, a.r)
            ELSE R(a.sc, rec_call_fn_raw(self, expr[2], a.vals).r)
    [] expr[1] = "True" -> R(scope, Ok(BoolV(TRUE)))
    [] expr[1] = "False" -> R(scope, Ok(BoolV(FALSE)))
    [] expr[1] = "Unit" -> R(scope, Ok(UnitV))

\* `for s in b.iter() { last_result = eval_stmt(scope, s); if Err, break }`
block_loop(self, scope, b, last_result) ==
  IF Len(b) = 0 THEN R(scope, last_result)
  ELSE LET h == rec_eval_stmt(self, scope, Head(b))
       IN IF ~IsOk(h.r) THEN h ELSE rec_block_loop(self, h.sc, Tail(b), h.r)

\* A block end that pops nothing.
pop_to_none(scope, prev_len) == scope

\* `while scope.len() > prev_len { scope.pop(); }`
pop_to(scope, prev_len) ==
  IF Len(scope) > prev_len THEN SubSeq(scope, 1, prev_len) ELSE scope

guard_of(g) ==
  IF ~IsOk(g.r) THEN g.r
  ELSE IF g.r.val.t # "bool" THEN Err("ErrorIfGuardMismatch", "")
  ELSE Ok(g.r.val)

\* A loop that runs its body once before it first tests the guard.
while_loop_body_first(self, scope, guard, body, n) ==
  LET b == rec_eval_stmt(self, scope, body)
      g == rec_eval_expr(self, b.sc, guard)
      gr == guard_of(g)
  IN IF b.r = ErrLoopBreak THEN R(b.sc, Ok(UnitV))
     ELSE IF ~IsOk(b.r) THEN b
     ELSE IF ~IsOk(gr) THEN R(g.sc, gr)
     ELSE IF ~gr.val.v THEN R(g.sc, Ok(UnitV))
     ELSE IF n = 0 THEN R(g.sc, Diverge)
     ELSE rec_while_loop(self, g.sc, guard, body, n - 1)

while_loop(self, scope, guard, body, n) ==
  LET g == rec_eval_expr(self, scope, guard)
      gr == guard_of(g)
  IN IF ~IsOk(gr) THEN R(g.sc, gr)
     ELSE IF ~gr.val.v THEN R(g.sc, Ok(UnitV))
     ELSE IF n = 0 THEN R(g.sc, Diverge)
     ELSE LET b == rec_eval_stmt(self, g.sc, body)
          IN IF b.r = ErrLoopBreak THEN R(b.sc, Ok(UnitV))
             ELSE IF ~IsOk(b.r) THEN b
             ELSE rec_while_loop(self, b.sc, guard, body, n - 1)

\* A loop that passes `break` on to the statement around it.
loop_loop_break_propagates(self, scope, body, n) ==
  IF n = 0 THEN R(scope, Diverge)
  ELSE LET b == rec_eval_stmt(self, scope, body)
       IN IF ~IsOk(b.r) THEN b
          ELSE rec_loop_loop(self, b.sc, body, n - 1)

\* A loop that ends on `return` as it does on `break`.
loop_loop_catches_return(self, scope, body, n) ==
  IF n = 0 THEN R(scope, Diverge)
  ELSE LET b == rec_eval_stmt(self, scope, body)
       IN IF b.r = ErrLoopBreak \/ b.r = ErrReturn(b.r.val) THEN R(b.sc, Ok(UnitV))
          ELSE IF ~IsOk(b.r) THEN b
          ELSE rec_loop_loop(self, b.sc, body, n - 1)

loop_loop(self, scope, body, n) ==
  IF n = 0 THEN R(scope, Diverge)
  ELSE LET b == rec_eval_stmt(self, scope, body)
       IN IF b.r = ErrLoopBreak THEN R(b.sc, Ok(UnitV))
          ELSE IF ~IsOk(b.r) THEN b
          ELSE rec_loop_loop(self, b.sc, body, n - 1)

eval_stmt(self, scope, stmt) ==
  CASE stmt[1] = "Expr" -> rec_eval_expr(self, scope, stmt[2])
    [] stmt[1] = "Block" ->
         LET b == rec_block_loop(self, scope, stmt[2], Ok(UnitV))
         IN IF Unwinds(b.r) THEN b ELSE R(pop_to(b.sc, Len(scope)), b.r)
    [] stmt[1] = "If" ->
         LET g == rec_eval_expr(self, scope, stmt[2])
             gr == guard_of(g)
         IN IF ~IsOk(gr) THEN R(g.sc, gr)
            ELSE IF gr.val.v THEN rec_eval_stmt(self, g.sc, stmt[3])
            ELSE R(g.sc, Ok(UnitV))
    [] stmt[1] = "IfElse" ->
         LET g == rec_eval_expr(self, scope, stmt[2])
             gr == guard_of(g)
         IN IF ~IsOk(gr) THEN R(g.sc, gr)
            ELSE IF gr.val.v THEN rec_eval_stmt(self, g.sc, stmt[3])
            ELSE rec_eval_stmt(self, g.sc, stmt[4])
    [] stmt[1] = "While" -> rec_while_loop(self, scope, stmt[2], stmt[3], MaxIter)
    [] stmt[1] = "Loop" -> rec_loop_loop(self, scope, stmt[2], MaxIter)
    [] stmt[1] = "Break" -> R(scope, ErrLoopBreak)
    [] stmt[1] = "Return" -> R(scope, ErrReturn(UnitV))
    [] stmt[1] = "ReturnWithVal" ->
         LET a == rec_eval_expr(self, scope, stmt[2])
         IN IF ~IsOk(a.r) THEN a ELSE R(a.sc, ErrReturn(a.r.val))
    [] stmt[1] = "Var" ->
         IF Len(stmt[3]) = 0 THEN R(Append(scope, <<stmt[2], UnitV>>), Ok(UnitV))
         ELSE LET i == rec_eval_expr(self, scope, stmt[3][1])
              IN IF ~IsOk(i.r) THEN i
                 ELSE R(Append(i.sc, <<stmt[2], i.r.val>>), Ok(UnitV))

(* ------------------------------ engine API ---------------------------- *)

ArityCap == 6

\* A registration in which the first definition of a name in a source wins.
RECURSIVE insert_fns_first_wins(_, _)
insert_fns_first_wins(m, fs) ==
  IF Len(fs) = 0 THEN m
  ELSE Insert(insert_fns_first_wins(m, Tail(fs)),
              FnSpec(Head(fs).name, None), FnInt(Head(fs)))

\* `for f in fns { self.fns.insert(FnSpec { ident: f.name, args: None }, Int(f)) }`
RECURSIVE insert_fns(_, _)
insert_fns(m, fs) ==
  IF Len(fs) = 0 THEN m
  ELSE insert_fns(Insert(m, FnSpec(Head(fs).name, None), FnInt(Head(fs))), Tail(fs))

\* The same loop in consume_with_scope, which returns Ok(()) from the whole
\* call at the first definition of more than 6 parameters.
RECURSIVE consume_fns(_, _)
consume_fns(m, fs) ==
  IF Len(fs) = 0 THEN [fns |-> m, capped |-> FALSE]
  ELSE IF Len(Head(fs).params) > ArityCap THEN [fns |-> m, capped |-> TRUE]
  ELSE consume_fns(Insert(m, FnSpec(Head(fs).name, None), FnInt(Head(fs))), Tail(fs))

\* `for o in os { x = match eval_stmt(scope, o) { Ok(v) => Ok(v), Err(e) => return Err(e) } }`
\* A statement loop that runs the statements after the failing one too.
top_loop_runs_all(self, scope, os, x) ==
  IF Len(os) = 0 THEN R(scope, x)
  ELSE LET h == rec_eval_stmt(self, scope, Head(os))
       IN IF ~IsOk(h.r) THEN R(rec_top_loop(self, h.sc, Tail(os), x).sc, h.r)
          ELSE rec_top_loop(self, h.sc, Tail(os), h.r)

top_loop(self, scope, os, x) ==
  IF Len(os) = 0 THEN R(scope, x)
  ELSE LET h == rec_eval_stmt(self, scope, Head(os))
       IN IF ~IsOk(h.r) THEN h ELSE rec_top_loop(self, h.sc, Tail(os), h.r)

\* x.downcast::<T>(), else ErrorMismatchOutputType(nice_type_name(x))
downcast(self, x, T) ==
  IF type_id(x) = T THEN Ok(x)
  ELSE Err("ErrorMismatchOutputType", nice_type_name(self, x))

\* An eval_with_scope that registers the functions of the source after it
\* has run the statements.
eval_with_scope_fns_last(self, scope, input, T) ==
  IF ~input.ok
  THEN [fns |-> self.fns, sc |-> scope, r |-> Err("ErrorFunctionArgMismatch", "")]
  ELSE LET f1 == insert_fns(self.fns, input.fns)
           x == rec_top_loop(self, scope, input.os, Ok(UnitV))
       IN [fns |-> f1, sc |-> x.sc,
           r |-> IF IsOk(x.r) THEN downcast(self, x.r.val, T) ELSE x.r]

eval_with_scope(self, scope, input, T) ==
  IF ~input.ok
  THEN [fns |-> self.fns, sc |-> scope, r |-> Err("ErrorFunctionArgMismatch", "")]
  ELSE LET f1 == insert_fns(self.fns, input.fns)
           x == rec_top_loop([self EXCEPT !.fns = f1], scope, input.os, Ok(UnitV))
       IN [fns |-> f1, sc |-> x.sc,
           r |-> IF IsOk(x.r) THEN downcast(self, x.r.val, T) ELSE x.r]

\* An eval that runs in the scope the host keeps for *_with_scope calls.
eval_in_kept_scope(self, input, T) == rec_eval_with_scope(self, my_scope, input, T)

eval(self, input, T) == rec_eval_with_scope(self, <<>>, input, T)

\* A consume_with_scope that reports success whatever the statements did.
consume_with_scope_swallows(self, scope, input) ==
  IF ~input.ok
  THEN [fns |-> self.fns, sc |-> scope, r |-> Err("ErrorFunctionArgMismatch", "")]
  ELSE LET c == consume_fns(self.fns, input.fns)
           x == rec_top_loop([self EXCEPT !.fns = c.fns], scope, input.os, Ok(UnitV))
       IN IF c.capped THEN [fns |-> c.fns, sc |-> scope, r |-> Ok(UnitV)]
          ELSE [fns |-> c.fns, sc |-> x.sc,
                r |-> IF Unwinds(x.r) THEN x.r ELSE Ok(UnitV)]

\* A consume_with_scope that reports success for a source that does not parse.
consume_with_scope_lenient(self, scope, input) ==
  IF ~input.ok
  THEN [fns |-> self.fns, sc |-> scope, r |-> Ok(UnitV)]
  ELSE LET c == consume_fns(self.fns, input.fns)
           x == rec_top_loop([self EXCEPT !.fns = c.fns], scope, input.os, Ok(UnitV))
       IN IF c.capped THEN [fns |-> c.fns, sc |-> scope, r |-> Ok(UnitV)]
          ELSE [fns |-> c.fns, sc |-> x.sc,
                r |-> IF IsOk(x.r) THEN Ok(UnitV) ELSE x.r]

consume_with_scope(self, scope, input) ==
  IF ~input.ok
  THEN [fns |-> self.fns, sc |-> scope, r |-> Err("ErrorFunctionArgMismatch", "")]
  ELSE LET c == consume_fns(self.fns, input.fns)
           x == rec_top_loop([self EXCEPT !.fns = c.fns], scope, input.os, Ok(UnitV))
       IN IF c.capped THEN [fns |-> c.fns, sc |-> scope, r |-> Ok(UnitV)]
          ELSE [fns |-> c.fns, sc |-> x.sc,
                r |-> IF IsOk(x.r) THEN Ok(UnitV) ELSE x.r]

consume(self, input) == rec_consume_with_scope(self, <<>>, input)

\* What stands for a file name whose file cannot be opened or read; any
\* other file is given by what its contents parse to.
NoFile == [ok |-> FALSE, os |-> <<>>, fns |-> <<>>, open |-> FALSE]

\* `if let Ok(mut f) = File::open(fname) { if f.read_to_string(..).is_ok()
\* { self.eval::<T>(&contents) } else { Err(..) } } else { Err(..) }`
eval_file(self, file, T) ==
  IF file = NoFile
  THEN [fns |-> self.fns, sc |-> <<>>, r |-> Err("ErrorCantOpenScriptFile", "")]
  ELSE eval(self, file, T)

\* The same with consume: its error is handed on, its success is Ok(()).
consume_file(self, file) ==
  IF file = NoFile
  THEN [fns |-> self.fns, sc |-> <<>>, r |-> Err("ErrorCantOpenScriptFile", "")]
  ELSE LET o == consume(self, file)
       IN [o EXCEPT !.r = IF IsOk(o.r) THEN Ok(UnitV) ELSE o.r]

call_fn(self, ident, args, T) ==
  LET c == rec_call_fn_raw(self, ident, args)
  IN IF IsOk(c.r) THEN downcast(self, c.r.val, T) ELSE c.r

\* The one recursive operator: the call c, handed to the function it names.
ev(c) ==
  CASE c[1] = "eval_expr" -> eval_expr(c[2], c[3], c[4])
    [] c[1] = "eval_stmt" -> eval_stmt(c[2], c[3], c[4])
    [] c[1] = "call_fn_raw" -> call_fn_raw(c[2], c[3], c[4])
    [] c[1] = "eval_items" -> eval_items(c[2], c[3], c[4])
    [] c[1] = "array_value" -> array_value(c[2], c[3], c[4], c[5])
    [] c[1] = "assign" -> assign(c[2], c[3], c[4], c[5])
    [] c[1] = "get_dot_val_helper" -> get_dot_val_helper(c[2], c[3], c[4], c[5])
    [] c[1] = "get_dot_val" -> get_dot_val(c[2], c[3], c[4], c[5])
    [] c[1] = "set_dot_val_helper" -> set_dot_val_helper(c[2], c[3], c[4], c[5])
    [] c[1] = "set_dot_val" -> set_dot_val(c[2], c[3], c[4], c[5], c[6])
    [] c[1] = "block_loop" -> block_loop(c[2], c[3], c[4], c[5])
    [] c[1] = "while_loop" -> while_loop(c[2], c[3], c[4], c[5], c[6])
    [] c[1] = "loop_loop" -> loop_loop(c[2], c[3], c[4], c[5])
    [] c[1] = "top_loop" -> top_loop(c[2], c[3], c[4], c[5])
    [] c[1] = "eval_with_scope" -> eval_with_scope(c[2], c[3], c[4], c[5])
    [] c[1] = "consume_with_scope" -> consume_with_scope(c[2], c[3], c[4])
    [] c[1] = "call_fn" -> call_fn(c[2], c[3], c[4], c[5])

register_fn_raw(m, ident, args, f) == Insert(m, FnSpec(ident, args), f)
\* fn_register: the closure is stored under (name, Some(its parameter types))
register_fn(m, name, nat, tys) == register_fn_raw(m, name, Some(tys), FnExt(nat, tys))
\* Engine::register_default_lib(&mut engine) on an engine that exists: every
\* default name and function is inserted again, in place of what the host
\* put under the same key; other entries stay.
register_default_lib(self) ==
  LET again(m, n) == [k \in DOMAIN m \cup DOMAIN n |-> IF k \in DOMAIN n THEN n[k] ELSE m[k]]
  IN [self EXCEPT !.type_names = again(self.type_names, DefaultTypeNames),
                  !.fns = again(self.fns, DefaultFns)]
\* `self.type_names.insert(TypeId::of::<T>(), name.into())` (register_type is a no-op)
register_type_name(tn, T, name) == Insert(tn, T, name)
register_get(m, name, get_fn, T) == register_fn(m, "get$" \o name, get_fn, <<T>>)
register_set(m, name, set_fn, T, U) == register_fn(m, "set$" \o name, set_fn, <<T, U>>)
register_get_set(m, name, get_fn, set_fn, T, U) ==
  register_set(register_get(m, name, get_fn, T), name, set_fn, T, U)

(* ------------------------------- inputs ------------------------------- *)

\* Source text as the parser hands it over: a unary minus and a binary
\* operator are calls of the operator's name.
I(n) == IntConst(n)
Id(x) == Identifier(x)
Neg(e) == FnCall("-", <<e>>)
Bin(op, a, b) == FnCall(op, <<a, b>>)
Call0(f) == FnCall(f, <<>>)
Set(lhs, rhs) == SExpr(Assignment(lhs, rhs))
Let(x, e) == Var(x, <<e>>)
Prog(os) == Parsed(os, <<>>)

Arr3 == Array(<<I(1), I(2), I(3)>>)
Arr1 == Array(<<I(7)>>)
ArrTS == Array(<<Call0("new_ts")>>)
ArrTS2 == Array(<<Call0("new_ts"), Call0("new_ts")>>)

\* eval results: what the last top-level statement leaves
ResultPrograms ==
  { Prog(<<>>),
    Prog(<<SExpr(Bin("+", I(40), I(2)))>>),
    Prog(<<SExpr(True)>>),
    Prog(<<SExpr(Arr3)>>),
    Prog(<<SExpr(Call0("new_ts"))>>),
    Prog(<<SExpr(Bin("+", StringConst("a"), StringConst("b")))>>),
    Prog(<<Let("x", I(5))>>),
    Prog(<<Var("x", <<>>)>>),
    Prog(<<Let("x", I(1)), Set(Id("x"), I(2))>>),
    Prog(<<Let("x", I(1)), SExpr(Id("x"))>>),
    Prog(<<Let("x", I(1)), SExpr(Id("x")), Let("y", True)>>),
    Prog(<<Let("o", Call0("new_ts")), Set(Dot(Id("o"), Id("x")), I(3))>>),
    Prog(<<Let("y", Arr1), Set(Index("y", I(0)), I(2))>>),
    Prog(<<While(False, Block(<<>>))>>),
    Prog(<<If(True, Block(<<SExpr(I(7))>>))>>),
    Prog(<<SExpr(I(1)), SExpr(Id("zz")), SExpr(I(2))>>) }

\* `let y = A; y[i] = v; y[i]` and `let x = A; x[i]`, in and out of range
IndexPrograms ==
  { Prog(<<Let("y", Array(A)), Set(Index("y", I(i)), v), SExpr(Index("y", I(i)))>>) :
      A \in {<<I(1), I(2), I(3)>>}, i \in -1..3, v \in {I(5), True} }
  \cup { Prog(<<Let("y", Array(A)), Set(Index("y", I(i)), v), SExpr(Index("y", I(i)))>>) :
      A \in {<<I(7)>>, <<Arr1, True>>}, i \in -1..2, v \in {Arr1} }
  \cup { Prog(<<Let("x", Array(A)), SExpr(Index("x", I(i)))>>) :
      A \in {<<I(1), I(2), I(3)>>, <<I(7)>>}, i \in -1..3 }
  \cup { Prog(<<Let("a", ArrTS), SExpr(Dot(Index("a", I(i)), Id("x")))>>) : i \in -1..1 }
  \cup { Prog(<<Let("a", ArrTS), Set(Dot(Index("a", I(i)), Id("x")), I(100))>>) : i \in -1..1 }
  \cup { Prog(<<Let("o", Call0("new_holder")), SExpr(Dot(Id("o"), Index("items", I(i))))>>) :
      i \in -1..2 }
  \cup { Prog(<<Let("x", I(1)), Let("y", Arr3), SExpr(Index("y", Id("x"))),
                 SExpr(Index("x", I(0)))>>) }

\* reads `x[e]` whose index is not an integer or fails, and whose variable
\* is unbound, shadowed, or not an array
IndexReadPrograms ==
  { Prog(<<Let("y", Arr3), SExpr(Index("y", True))>>),
    Prog(<<Let("y", Arr3), SExpr(Index("y", Id("zz")))>>),
    Prog(<<SExpr(Index("zz", True))>>),
    Prog(<<SExpr(Index("zz", I(0)))>>),
    Prog(<<Let("k", I(1)), SExpr(Index("k", Id("zz")))>>),
    Prog(<<Let("x", Arr3), Let("x", I(1)), SExpr(Index("x", I(0)))>>),
    Prog(<<Let("x", I(1)), Let("x", Array(<<I(4), I(5)>>)), SExpr(Index("x", I(1)))>>),
    Prog(<<Let("x", Arr3), Let("i", I(2)), SExpr(Index("x", Bin("-", Id("i"), I(1))))>>) }

\* the dot protocol on TestStruct
DotPrograms ==
  { Prog(<<Let("a", ArrTS), SExpr(Dot(Index("a", I(0)), Id("x")))>>),
    Prog(<<Let("a", ArrTS), Set(Dot(Index("a", I(0)), Id("x")), I(100)),
           SExpr(Dot(Index("a", I(0)), Call0("update"))),
           SExpr(Dot(Index("a", I(0)), Id("x")))>>),
    Prog(<<Let("a", ArrTS2), SExpr(Dot(Index("a", I(1)), Call0("update"))),
           SExpr(Dot(Index("a", I(0)), Id("x")))>>),
    Prog(<<Let("a", ArrTS2), SExpr(Dot(Index("a", I(1)), Call0("update")))>>),
    Prog(<<Let("o", Call0("new_ts")), SExpr(Dot(Id("o"), Call0("update"))),
           SExpr(Dot(Id("o"), Id("x")))>>),
    Prog(<<Let("o", Call0("new_ts")), SExpr(Dot(Id("o"), Call0("update"))),
           SExpr(Dot(Id("o"), Call0("update")))>>),
    Prog(<<Let("o", Call0("new_ts")), Let("o", Call0("new_ts")),
           SExpr(Dot(Id("o"), Call0("update")))>>),
    Prog(<<Let("o", Call0("new_ts")), SExpr(Dot(Id("o"), Id("x")))>>) }
  \cup { Prog(<<Let("o", Call0("new_ts")), Set(Dot(Id("o"), Id("x")), I(v)),
                 SExpr(Dot(Id("o"), Id("x")))>>) : v \in {-5, 0, 100} }
  \cup { Prog(<<Let("a", ArrTS2), Set(Dot(Index("a", I(i)), Id("x")), I(v)),
                 SExpr(Dot(Index("a", I(i)), Id("x")))>>) : i \in 0..1, v \in {100} }
  \cup { Prog(<<Let("o", Call0("new_ts")), Set(Dot(Id("o"), Id("x")), True),
                 SExpr(Dot(Id("o"), Id("x")))>>) }

\* `fn f(x) { E } f(a)`, for bodies E and arguments a
FnPrograms ==
  { Parsed(<<SExpr(FnCall("f", <<a>>))>>, <<FnDef("f", <<"x">>, Block(b))>>) :
      b \in { <<SExpr(Neg(Id("x")))>>,
              <<SExpr(Id("x"))>>,
              <<SExpr(Bin("+", Id("x"), I(1)))>>,
              <<SExpr(Array(<<Id("x"), Id("x")>>))>>,
              <<SExpr(Index("x", I(0)))>>,
              <<Let("y", Id("x")), SExpr(Bin("*", Id("y"), Id("y")))>>,
              <<Let("y", Id("x"))>>,
              <<>> },
      a \in {I(5), Arr1, True} }
  \cup { Parsed(<<SExpr(FnCall("n", <<I(5)>>))>>,
                <<FnDef("n", <<"x">>, Block(<<SExpr(Neg(Id("x")))>>))>>) }

\* blocks that end normally, with an error, with break and with return
BlockPrograms ==
  LET BlockBodies ==
        { <<>>,
          <<Let("x", I(2)), Let("y", I(3)), SExpr(Id("x"))>>,
          <<Let("y", I(2)), SExpr(Id("zz"))>>,
          <<Let("y", I(2)), Break>>,
          <<Let("y", I(2)), ReturnWithVal(Id("y"))>>,
          <<Let("x", I(2)), Set(Id("x"), I(3)), SExpr(Id("x"))>>,
          <<Let("x", I(2)), Set(Id("x"), I(3))>>,
          <<Let("y", I(1)), Block(<<Let("z", I(2)), Let("x", I(4))>>), SExpr(Id("y"))>>,
          <<Let("y", I(1)), Block(<<Let("z", I(2)), Break>>), SExpr(Id("y"))>>,
          <<Set(Id("x"), I(9)), Let("x", I(2))>> }
  IN
  { Prog(<<Let("x", I(1)), Block(b)>>) : b \in BlockBodies }
  \cup { Prog(<<Let("x", I(1)), Block(b), SExpr(Id("x"))>>) : b \in BlockBodies }
  \cup { Prog(<<Let("x", I(1)), If(True, Block(<<Let("x", I(2))>>)), SExpr(Id("x"))>>),
         Prog(<<Let("i", I(0)),
                While(Bin("<", Id("i"), I(2)),
                      Block(<<Let("t", Id("i")), Set(Id("i"), Bin("+", Id("t"), I(1)))>>)),
                SExpr(Id("i"))>>) }

\* `let i = 0; while i < n { i = i + 1; } i`
CountTo(n) ==
  Prog(<<Let("i", I(0)),
         While(Bin("<", Id("i"), I(n)),
               Block(<<Set(Id("i"), Bin("+", Id("i"), I(1)))>>)),
         SExpr(Id("i"))>>)
WhilePrograms == {CountTo(n) : n \in 0..3}

\* `fn g(x) { x }  fn big(p1, .., pn) { 1 }  fn h(x) { x + 1 }  let z = 1; h(5)`
CapProgram(n) ==
  Parsed(<<Let("z", I(1)), SExpr(FnCall("h", <<I(5)>>))>>,
         <<FnDef("g", <<"x">>, Block(<<SExpr(Id("x"))>>)),
           FnDef("big", [i \in 1..n |-> <<"p1", "p2", "p3", "p4", "p5", "p6", "p7">>[i]],
                 Block(<<SExpr(I(1))>>)),
           FnDef("h", <<"x">>, Block(<<SExpr(Bin("+", Id("x"), I(1)))>>))>>)
CapPrograms == {CapProgram(n) : n \in {ArityCap, ArityCap + 1}}

\* `let a = E; let b = a;` (or `let b = a[i];`), a change made through one
\* of the two, then a read of the other; with the value the read gives.
AliasCases ==
  { <<Prog(<<Let("a", I(1)), Let("b", Id("a")), Set(Id("b"), I(2)), SExpr(Id("a"))>>),
      IntV(1)>>,
    <<Prog(<<Let("a", Arr3), Let("b", Id("a")), Set(Index("b", I(0)), I(9)),
             SExpr(Index("a", I(0)))>>), IntV(1)>>,
    <<Prog(<<Let("a", Arr3), Let("b", Index("a", I(1))), Set(Id("b"), I(9)),
             SExpr(Index("a", I(1)))>>), IntV(2)>>,
    <<Prog(<<Let("a", Call0("new_ts")), Let("b", Id("a")),
             Set(Dot(Id("b"), Id("x")), I(5)), SExpr(Dot(Id("a"), Id("x")))>>), IntV(1)>>,
    <<Prog(<<Let("a", Call0("new_ts")), Let("b", Id("a")),
             SExpr(Dot(Id("b"), Call0("update"))), SExpr(Dot(Id("a"), Id("x")))>>),
      IntV(1)>>,
    <<Prog(<<Let("a", ArrTS), Let("b", Index("a", I(0))),
             Set(Dot(Id("b"), Id("x")), I(5)),
             SExpr(Dot(Index("a", I(0)), Id("x")))>>), IntV(1)>>,
    <<Prog(<<Let("a", Arr3), Let("b", Id("a")), Set(Index("a", I(0)), I(9)),
             SExpr(Index("b", I(0)))>>), IntV(1)>>,
    <<Prog(<<Let("a", Call0("new_ts")), Let("b", Id("a")),
             SExpr(Dot(Id("a"), Call0("update"))), SExpr(Dot(Id("b"), Id("x")))>>),
      IntV(1)>> }

\* `fn f(x) { B } let r = f(5); r`
ReturnProgram(B) ==
  Parsed(<<Let("r", FnCall("f", <<I(5)>>)), SExpr(Id("r"))>>,
         <<FnDef("f", <<"x">>, Block(B))>>)

\* Bodies B that execute `return` at the top of the body, in a block, an if
\* branch, a while, a loop and in loops inside one another, each followed by
\* a later statement; with the value returned.
ReturnCases ==
  { << <<ReturnWithVal(Id("x")), SExpr(I(99))>>, IntV(5)>>,
    << <<Return, SExpr(I(99))>>, UnitV>>,
    << <<Block(<<Let("y", I(1)), ReturnWithVal(Id("y")), SExpr(I(98))>>), SExpr(I(99))>>,
       IntV(1)>>,
    << <<If(True, Block(<<ReturnWithVal(I(2))>>)), SExpr(I(99))>>, IntV(2)>>,
    << <<IfElse(False, Block(<<>>), Block(<<ReturnWithVal(I(6))>>)), SExpr(I(99))>>,
       IntV(6)>>,
    << <<While(True, Block(<<ReturnWithVal(I(3))>>)), SExpr(I(99))>>, IntV(3)>>,
    << <<Loop(Block(<<ReturnWithVal(I(4))>>)), SExpr(I(99))>>, IntV(4)>>,
    << <<While(True,
               Block(<<Loop(Block(<<If(True,
                                      Block(<<ReturnWithVal(Bin("+", Id("x"), I(1)))>>)),
                                   Break>>)),
                       SExpr(I(97))>>)),
         SExpr(I(99))>>, IntV(6)>> }

\* `fn f(x) { B } S`: bodies that change their parameter, declare a local of
\* the caller's name or read a variable of the caller, with the statements S
\* of the caller and the outcome of the source.
CallCases ==
  { <<Parsed(<<Let("a", I(1)), SExpr(FnCall("f", <<Id("a")>>)), SExpr(Id("a"))>>,
             <<FnDef("f", <<"x">>, Block(<<Set(Id("x"), I(9))>>))>>), Ok(IntV(1))>>,
    <<Parsed(<<Let("a", Arr3), SExpr(FnCall("f", <<Id("a")>>)), SExpr(Index("a", I(0)))>>,
             <<FnDef("f", <<"x">>,
                     Block(<<Set(Index("x", I(0)), I(9)), SExpr(Index("x", I(0)))>>))>>),
      Ok(IntV(1))>>,
    <<Parsed(<<Let("a", Arr3), SExpr(FnCall("f", <<Id("a")>>))>>,
             <<FnDef("f", <<"x">>,
                     Block(<<Set(Index("x", I(0)), I(9)), SExpr(Index("x", I(0)))>>))>>),
      Ok(IntV(9))>>,
    <<Parsed(<<Let("y", I(1)), SExpr(FnCall("f", <<I(5)>>)), SExpr(Id("y"))>>,
             <<FnDef("f", <<"x">>, Block(<<Let("y", Id("x"))>>))>>), Ok(IntV(1))>>,
    <<Parsed(<<Let("z", I(1)), SExpr(FnCall("f", <<I(5)>>))>>,
             <<FnDef("f", <<"x">>, Block(<<SExpr(Id("z"))>>))>>),
      Err("ErrorVariableNotFound", "z")>>,
    <<Parsed(<<SExpr(FnCall("f", <<I(2), I(3)>>))>>,
             <<FnDef("f", <<"x", "y">>,
                     Block(<<If(True, Block(<<SExpr(Bin("*", Id("x"), Id("y")))>>))>>))>>),
      Ok(IntV(6))>> }

\* `n = n + d;`
Inc(x, d) == Set(Id(x), Bin("+", Id(x), I(d)))

\* Sources of further scenarios, each with a tag for what it exercises, the
\* outcome of evaluating it and the bindings it leaves in an empty scope.
\* "break": break in loops inside one another.
\* "assign": assignment to a variable, bound, shadowed or unbound.
\* "index_set": `n[e] = v` with n unbound or not an array, e not an integer.
\* "nested_set": `a.p.q = v` whose inner get, inner set or outer set succeeds or fails.
\* "order": arguments, array elements and operands with effects and failures.
\* "overwrite": two definitions of one name; `+` on integers and on strings.
\* "isolated": assignments inside the body of a called function, also called as `a.f()`.
\* "break_fn": `break` in the body of a called function, outside any loop of the body.
\* "args_change": `a.m(args)` and `a[i].m(args)` whose arguments change a.
\* "failed_walk": a dot walk that fails after a getter has changed the receiver.
\* "method_style": a native that changes its first argument, called as `m(a)` and as `a.m()`.
\* "get_chain": `a.p.m()` with a method m that changes its receiver.
\* "no_rollback": a statement that fails after others have changed the scope.
\* "arity": a script function called with fewer or more arguments than parameters.
\* "unnamed": a value of a type without a name read as i64, or given to a function
\*   that is not registered (TestStruct, Holder and () have no name after HostSetup).
Scenarios ==
  { <<"break",
      Prog(<<Let("n", I(0)), Let("i", I(0)),
             While(Bin("<", Id("i"), I(2)),
                   Block(<<Inc("i", 1),
                           Loop(Block(<<Let("t", I(1)), Inc("n", 1), Break, Inc("n", 100)>>)),
                           Inc("n", 10)>>)),
             SExpr(Id("n"))>>),
      Ok(IntV(22)), << <<"n", IntV(22)>>, <<"i", IntV(2)>> >> >>,
    <<"break",
      Prog(<<Let("n", I(0)),
             Loop(Block(<<While(True, Block(<<Let("t", I(5)), Break, Inc("n", 70)>>)),
                          Inc("n", 1), Break, Inc("n", 50)>>)),
             SExpr(Id("n"))>>),
      Ok(IntV(1)), << <<"n", IntV(1)>> >> >>,
    <<"break",
      Prog(<<Let("n", I(0)),
             While(True,
                   Block(<<Inc("n", 1),
                           If(Bin("==", Id("n"), I(2)), Block(<<Let("u", I(0)), Break>>))>>)),
             SExpr(Id("n"))>>),
      Ok(IntV(2)), << <<"n", IntV(2)>> >> >>,
    <<"break",
      Prog(<<Loop(Block(<<Loop(Block(<<Block(<<Let("a", I(1)), Block(<<Break>>)>>)>>)),
                          Break>>))>>),
      Ok(UnitV), <<>> >>,
    <<"assign",
      Prog(<<Let("o", Call0("new_ts")),
             Set(Id("zz"), Dot(Id("o"), Call0("update")))>>),
      Err("ErrorVariableNotFound", "zz"), << <<"o", TSV(1001)>> >> >>,
    <<"assign",
      Prog(<<Let("o", Call0("new_ts")), Let("u", I(0)),
             Set(Id("u"), Dot(Id("o"), Call0("update"))), SExpr(Id("u"))>>),
      Ok(UnitV), << <<"o", TSV(1001)>>, <<"u", UnitV>> >> >>,
    <<"assign",
      Prog(<<Let("x", I(1)), Let("x", I(2)), Set(Id("x"), I(3)), SExpr(Id("x"))>>),
      Ok(IntV(3)), << <<"x", IntV(1)>>, <<"x", IntV(3)>> >> >>,
    <<"assign",
      Prog(<<Let("x", I(1)), Block(<<Let("x", I(2)), Set(Id("x"), I(3))>>),
             SExpr(Id("x"))>>),
      Ok(IntV(1)), << <<"x", IntV(1)>> >> >>,
    <<"assign",
      Prog(<<Let("x", I(1)), Set(Id("zz"), Id("yy"))>>),
      Err("ErrorVariableNotFound", "yy"), << <<"x", IntV(1)>> >> >>,
    <<"assign",
      Prog(<<Let("x", I(1)), Set(Id("x"), True), SExpr(Id("x"))>>),
      Err("ErrorMismatchOutputType", "boolean"), << <<"x", BoolV(TRUE)>> >> >>,
    <<"index_set",
      Prog(<<Set(Index("zz", True), I(1))>>),
      Err("ErrorVariableNotFound", "zz"), <<>> >>,
    <<"index_set",
      Prog(<<Set(Index("zz", I(0)), I(1))>>),
      Err("ErrorVariableNotFound", "zz"), <<>> >>,
    <<"index_set",
      Prog(<<Let("k", I(1)), Set(Index("k", I(0)), I(5))>>),
      Err("ErrorIndexMismatch", ""), << <<"k", IntV(1)>> >> >>,
    <<"index_set",
      Prog(<<Let("k", I(1)), Set(Index("k", True), I(5))>>),
      Err("ErrorIndexMismatch", ""), << <<"k", IntV(1)>> >> >>,
    <<"index_set",
      Prog(<<Let("y", Arr1), Set(Index("y", True), I(5))>>),
      Err("ErrorIndexMismatch", ""), << <<"y", ArrV(<<IntV(7)>>)>> >> >>,
    <<"index_set",
      Prog(<<Let("y", Arr1), Let("y", I(0)), Set(Index("y", I(0)), I(5))>>),
      Err("ErrorIndexMismatch", ""), << <<"y", ArrV(<<IntV(7)>>)>>, <<"y", IntV(0)>> >> >>,
    <<"nested_set",
      Prog(<<Let("o", Call0("new_holder")),
             Set(Dot(Id("o"), Dot(Id("ts"), Id("x"))), I(5)),
             SExpr(Dot(Id("o"), Dot(Id("ts"), Id("x"))))>>),
      Ok(IntV(5)), << <<"o", HolderV(<<IntV(1), IntV(2)>>, TSV(5))>> >> >>,
    <<"nested_set",
      Prog(<<Let("o", Call0("new_holder")),
             Set(Dot(Id("o"), Dot(Id("ts"), Id("nope"))), I(5))>>),
      Err("ErrorFunctionNotFound", "set$nope (<unknown> TypeId(Box<Any>),integer)"),
      << <<"o", HolderV(<<IntV(1), IntV(2)>>, TSV(1))>> >> >>,
    <<"nested_set",
      Prog(<<Let("o", Call0("new_holder")),
             Set(Dot(Id("o"), Dot(Id("ts"), Id("x"))), True)>>),
      Err("ErrorFunctionNotFound", "set$x (<unknown> TypeId(Box<Any>),boolean)"),
      << <<"o", HolderV(<<IntV(1), IntV(2)>>, TSV(1))>> >> >>,
    <<"nested_set",
      Prog(<<Let("o", Call0("new_holder")),
             Set(Dot(Id("o"), Dot(Id("nope"), Id("x"))), I(5))>>),
      Err("ErrorFunctionNotFound", "get$nope (<unknown> TypeId(Box<Any>))"),
      << <<"o", HolderV(<<IntV(1), IntV(2)>>, TSV(1))>> >> >>,
    <<"nested_set",
      Prog(<<Let("o", Call0("new_holder")),
             Set(Dot(Id("o"), Dot(Id("items"), Id("x"))), I(5))>>),
      Err("ErrorFunctionNotFound", "set$x (array,integer)"),
      << <<"o", HolderV(<<IntV(1), IntV(2)>>, TSV(1))>> >> >>,
    <<"order",
      Prog(<<Let("o", Call0("new_ts")),
             SExpr(Array(<<Dot(Id("o"), Id("x")), Dot(Id("o"), Call0("update")),
                           Dot(Id("o"), Id("x"))>>))>>),
      Ok(ArrV(<<IntV(1), UnitV, IntV(1001)>>)), << <<"o", TSV(1001)>> >> >>,
    <<"order",
      Parsed(<<Let("o", Call0("new_ts")),
               SExpr(FnCall("pair", <<Dot(Id("o"), Id("x")), Dot(Id("o"), Call0("update")),
                                      Dot(Id("o"), Id("x"))>>))>>,
             <<FnDef("pair", <<"a", "b", "c">>,
                     Block(<<SExpr(Array(<<Id("a"), Id("c")>>))>>))>>),
      Ok(ArrV(<<IntV(1), IntV(1001)>>)), << <<"o", TSV(1001)>> >> >>,
    <<"order",
      Parsed(<<Let("o", Call0("new_ts")),
               SExpr(FnCall("pair", <<Dot(Id("o"), Call0("update")), Id("zz"),
                                      Dot(Id("o"), Call0("update"))>>))>>,
             <<FnDef("pair", <<"a", "b", "c">>,
                     Block(<<SExpr(Array(<<Id("a"), Id("c")>>))>>))>>),
      Err("ErrorVariableNotFound", "zz"), << <<"o", TSV(1001)>> >> >>,
    <<"order",
      Prog(<<Let("o", Call0("new_ts")),
             SExpr(Array(<<Dot(Id("o"), Call0("update")), Id("zz"),
                           Dot(Id("o"), Call0("update"))>>))>>),
      Err("ErrorVariableNotFound", "zz"), << <<"o", TSV(1001)>> >> >>,
    <<"order",
      Prog(<<SExpr(Bin("&&", False, Id("zz")))>>),
      Err("ErrorVariableNotFound", "zz"), <<>> >>,
    <<"order",
      Prog(<<Let("o", Call0("new_ts")),
             SExpr(Bin("||", True, Bin("==", Dot(Id("o"), Call0("update")), Unit)))>>),
      Ok(BoolV(TRUE)), << <<"o", TSV(1001)>> >> >>,
    <<"order",
      Prog(<<SExpr(FnCall("nofn", <<Id("zz")>>))>>),
      Err("ErrorVariableNotFound", "zz"), <<>> >>,
    <<"overwrite",
      Parsed(<<SExpr(FnCall("f", <<I(2), I(3)>>))>>,
             <<FnDef("f", <<"x">>, Block(<<SExpr(Id("x"))>>)),
               FnDef("f", <<"x", "y">>, Block(<<SExpr(Bin("*", Id("x"), Id("y")))>>))>>),
      Ok(IntV(6)), <<>> >>,
    <<"overwrite",
      Parsed(<<Let("k", I(1)), SExpr(FnCall("f", <<I(5)>>))>>,
             <<FnDef("f", <<"x">>, Block(<<SExpr(Id("x"))>>)),
               FnDef("f", <<"x", "y">>, Block(<<SExpr(Bin("*", Id("x"), Id("y")))>>))>>),
      Err("ErrorVariableNotFound", "y"), << <<"k", IntV(1)>> >> >>,
    <<"overwrite",
      Parsed(<<SExpr(FnCall("f", <<I(2), I(3)>>))>>,
             <<FnDef("f", <<"x", "y">>, Block(<<SExpr(Bin("*", Id("x"), Id("y")))>>)),
               FnDef("f", <<"x">>, Block(<<SExpr(Id("x"))>>))>>),
      Ok(IntV(2)), <<>> >>,
    <<"overwrite",
      Prog(<<Let("s", Bin("+", StringConst("a"), StringConst("b"))),
             SExpr(Bin("+", I(1), I(2)))>>),
      Ok(IntV(3)), << <<"s", StrV("ab")>> >> >>,
    <<"isolated",
      Parsed(<<Let("a", I(1)), SExpr(Dot(Id("a"), Call0("f"))), SExpr(Id("a"))>>,
             <<FnDef("f", <<"x">>, Block(<<Set(Id("x"), I(9))>>))>>),
      Ok(IntV(1)), << <<"a", IntV(1)>> >> >>,
    <<"isolated",
      Parsed(<<Let("a", Arr3), SExpr(Dot(Id("a"), Call0("f"))), SExpr(Index("a", I(0)))>>,
             <<FnDef("f", <<"x">>,
                     Block(<<Set(Index("x", I(0)), I(9)), SExpr(Index("x", I(0)))>>))>>),
      Ok(IntV(1)), << <<"a", ArrV(<<IntV(1), IntV(2), IntV(3)>>)>> >> >>,
    <<"isolated",
      Parsed(<<Let("o", Call0("new_ts")), Let("r", Dot(Id("o"), Call0("g"))),
               SExpr(Dot(Id("o"), Id("x")))>>,
             <<FnDef("g", <<"p">>,
                     Block(<<Set(Dot(Id("p"), Id("x")), I(5)), SExpr(Dot(Id("p"), Id("x")))>>))>>),
      Ok(IntV(1)), << <<"o", TSV(1)>>, <<"r", IntV(5)>> >> >>,
    <<"isolated",
      Parsed(<<Let("o", Call0("new_ts")), Let("r", FnCall("g", <<Id("o")>>)),
               SExpr(Dot(Id("o"), Id("x")))>>,
             <<FnDef("g", <<"p">>,
                     Block(<<Set(Dot(Id("p"), Id("x")), I(5)), SExpr(Dot(Id("p"), Id("x")))>>))>>),
      Ok(IntV(1)), << <<"o", TSV(1)>>, <<"r", IntV(5)>> >> >>,
    <<"isolated",
      Parsed(<<Let("z", I(1)), SExpr(FnCall("f", <<I(5)>>))>>,
             <<FnDef("f", <<"x">>, Block(<<Set(Id("z"), I(2))>>))>>),
      Err("ErrorVariableNotFound", "z"), << <<"z", IntV(1)>> >> >>,
    <<"isolated",
      Parsed(<<Let("a", I(1)), Let("r", FnCall("f", <<I(2)>>)), SExpr(Id("a"))>>,
             <<FnDef("f", <<"x">>,
                     Block(<<Let("a", I(7)), Set(Id("a"), I(8)), SExpr(Id("a"))>>))>>),
      Ok(IntV(1)), << <<"a", IntV(1)>>, <<"r", IntV(8)>> >> >>,
    <<"isolated",
      Parsed(<<Let("a", I(1)), SExpr(Dot(Id("a"), Call0("f")))>>,
             <<FnDef("f", <<"x">>, Block(<<SExpr(Id("a"))>>))>>),
      Err("ErrorVariableNotFound", "a"), << <<"a", IntV(1)>> >> >>,
    <<"isolated",
      Parsed(<<Let("u", I(1)), SExpr(FnCall("f", <<I(5)>>))>>,
             <<FnDef("f", <<"x">>, Block(<<Let("t", I(1)), SExpr(FnCall("h", <<Id("x")>>))>>)),
               FnDef("h", <<"y">>, Block(<<SExpr(Id("t"))>>))>>),
      Err("ErrorVariableNotFound", "t"), << <<"u", IntV(1)>> >> >>,
    <<"break_fn",
      Parsed(<<Let("n", I(0)),
               While(True, Block(<<Inc("n", 1), SExpr(FnCall("b", <<I(1)>>)), Inc("n", 10)>>)),
               SExpr(Id("n"))>>,
             <<FnDef("b", <<"x">>, Block(<<Break>>))>>),
      Ok(IntV(1)), << <<"n", IntV(1)>> >> >>,
    <<"break_fn",
      Parsed(<<Let("k", I(1)), SExpr(FnCall("b", <<I(1)>>)), Inc("k", 1)>>,
             <<FnDef("b", <<"x">>, Block(<<Break>>))>>),
      Err("LoopBreak", ""), << <<"k", IntV(1)>> >> >>,
    <<"break_fn",
      Parsed(<<Let("n", I(0)),
               Loop(Block(<<Inc("n", 1), SExpr(FnCall("c", <<I(1)>>)), Inc("n", 10)>>)),
               SExpr(Id("n"))>>,
             <<FnDef("b", <<"x">>, Block(<<If(True, Block(<<Break>>)), SExpr(I(4))>>)),
               FnDef("c", <<"x">>, Block(<<SExpr(FnCall("b", <<Id("x")>>)), SExpr(I(5))>>))>>),
      Ok(IntV(1)), << <<"n", IntV(1)>> >> >>,
    <<"break_fn",
      Parsed(<<Let("n", I(0)),
               While(Bin("<", Id("n"), I(2)),
                     Block(<<Set(Id("n"), Bin("+", Id("n"), FnCall("b", <<I(1)>>)))>>)),
               SExpr(Id("n"))>>,
             <<FnDef("b", <<"x">>, Block(<<Loop(Block(<<Break>>)), SExpr(I(7))>>))>>),
      Ok(IntV(7)), << <<"n", IntV(7)>> >> >>,
    <<"break_fn",
      Parsed(<<Let("a", I(3)), Let("n", I(0)),
               Loop(Block(<<Inc("n", 1), SExpr(Dot(Id("a"), Call0("b"))), Inc("n", 10)>>)),
               SExpr(Id("n"))>>,
             <<FnDef("b", <<"x">>, Block(<<Break>>))>>),
      Ok(IntV(1)), << <<"a", IntV(3)>>, <<"n", IntV(1)>> >> >>,
    <<"args_change",
      Parsed(<<Let("a", I(1)),
               SExpr(Dot(Id("a"), FnCall("f", <<Assignment(Id("a"), I(5))>>))),
               SExpr(Id("a"))>>,
             <<FnDef("f", <<"x", "y">>, Block(<<SExpr(Id("y"))>>))>>),
      Ok(IntV(1)), << <<"a", IntV(1)>> >> >>,
    <<"args_change",
      Parsed(<<Let("o", Call0("new_ts")),
               SExpr(Dot(Id("o"), FnCall("f", <<Dot(Id("o"), Call0("update"))>>))),
               SExpr(Dot(Id("o"), Id("x")))>>,
             <<FnDef("f", <<"x", "y">>, Block(<<SExpr(Id("y"))>>))>>),
      Ok(IntV(1)), << <<"o", TSV(1)>> >> >>,
    <<"args_change",
      Parsed(<<Let("a", Arr3),
               SExpr(Dot(Index("a", I(0)), FnCall("f", <<Assignment(Index("a", I(0)), I(9))>>))),
               SExpr(Index("a", I(0)))>>,
             <<FnDef("f", <<"x", "y">>, Block(<<SExpr(Id("y"))>>))>>),
      Ok(IntV(1)), << <<"a", ArrV(<<IntV(1), IntV(2), IntV(3)>>)>> >> >>,
    <<"args_change",
      Parsed(<<Let("a", Arr3),
               SExpr(Dot(Index("a", I(0)), FnCall("f", <<Assignment(Index("a", I(1)), I(9))>>))),
               SExpr(Index("a", I(1)))>>,
             <<FnDef("f", <<"x", "y">>, Block(<<SExpr(Id("y"))>>))>>),
      Ok(IntV(9)), << <<"a", ArrV(<<IntV(1), IntV(9), IntV(3)>>)>> >> >>,
    <<"args_change",
      Parsed(<<Let("a", Arr3),
               SExpr(Dot(Index("a", I(0)),
                         FnCall("f", <<Assignment(Id("a"), Array(<<I(7), I(8)>>))>>))),
               SExpr(Index("a", I(1)))>>,
             <<FnDef("f", <<"x", "y">>, Block(<<SExpr(Id("y"))>>))>>),
      Ok(IntV(8)), << <<"a", ArrV(<<IntV(1), IntV(8)>>)>> >> >>,
    <<"args_change",
      Parsed(<<Let("a", Arr3),
               SExpr(Dot(Index("a", I(0)), FnCall("f", <<Assignment(Id("a"), I(5))>>))),
               SExpr(Id("a"))>>,
             <<FnDef("f", <<"x", "y">>, Block(<<SExpr(Id("y"))>>))>>),
      Panic, << <<"a", IntV(5)>> >> >>,
    <<"failed_walk",
      Prog(<<Let("o", Call0("new_holder")),
             SExpr(Dot(Id("o"), Dot(Id("touch"), Id("nope"))))>>),
      Err("ErrorFunctionNotFound", "get$nope (<unknown> TypeId(Box<Any>))"),
      << <<"o", HolderV(<<IntV(1), IntV(2)>>, TSV(1001))>> >> >>,
    <<"failed_walk",
      Prog(<<Let("o", Call0("new_holder")),
             SExpr(Dot(Id("o"), Dot(Id("touch"), Call0("nomethod"))))>>),
      Err("ErrorFunctionNotFound", "nomethod (<unknown> TypeId(Box<Any>))"),
      << <<"o", HolderV(<<IntV(1), IntV(2)>>, TSV(1001))>> >> >>,
    <<"failed_walk",
      Prog(<<Let("o", Call0("new_holder")),
             SExpr(Dot(Id("o"), Dot(Id("touch"), FnCall("update", <<Id("zz")>>))))>>),
      Err("ErrorVariableNotFound", "zz"),
      << <<"o", HolderV(<<IntV(1), IntV(2)>>, TSV(1001))>> >> >>,
    <<"failed_walk",
      Prog(<<Let("o", Call0("new_holder")),
             SExpr(Dot(Id("o"), Dot(Id("touch"), I(5))))>>),
      Err("InternalErrorMalformedDotExpression", ""),
      << <<"o", HolderV(<<IntV(1), IntV(2)>>, TSV(1001))>> >> >>,
    <<"failed_walk",
      Prog(<<Let("o", Call0("new_holder")),
             Set(Dot(Id("o"), Dot(Id("touch"), Id("nope"))), I(5))>>),
      Err("ErrorFunctionNotFound", "set$nope (<unknown> TypeId(Box<Any>),integer)"),
      << <<"o", HolderV(<<IntV(1), IntV(2)>>, TSV(1001))>> >> >>,
    <<"failed_walk",
      Prog(<<Let("o", Call0("new_holder")),
             Set(Dot(Id("o"), Dot(Id("touch"), Id("x"))), I(5))>>),
      Err("ErrorFunctionNotFound",
          "set$touch (<unknown> TypeId(Box<Any>),<unknown> TypeId(Box<Any>))"),
      << <<"o", HolderV(<<IntV(1), IntV(2)>>, TSV(1001))>> >> >>,
    <<"failed_walk",
      Prog(<<Let("o", Call0("new_holder")),
             Set(Dot(Id("o"), Dot(Id("touch"), Call0("update"))), I(5))>>),
      Err("InternalErrorMalformedDotExpression", ""),
      << <<"o", HolderV(<<IntV(1), IntV(2)>>, TSV(1001))>> >> >>,
    <<"failed_walk",
      Prog(<<Let("a", Array(<<Call0("new_holder")>>)),
             SExpr(Dot(Index("a", I(0)), Dot(Id("touch"), Id("nope"))))>>),
      Err("ErrorFunctionNotFound", "get$nope (<unknown> TypeId(Box<Any>))"),
      << <<"a", ArrV(<<HolderV(<<IntV(1), IntV(2)>>, TSV(1001))>>)>> >> >>,
    <<"failed_walk",
      Prog(<<Let("a", Array(<<Call0("new_holder")>>)),
             Set(Dot(Index("a", I(0)), Dot(Id("touch"), Id("nope"))), I(5))>>),
      Err("ErrorFunctionNotFound", "set$nope (<unknown> TypeId(Box<Any>),integer)"),
      << <<"a", ArrV(<<HolderV(<<IntV(1), IntV(2)>>, TSV(1001))>>)>> >> >>,
    <<"failed_walk",
      Prog(<<Let("o", Call0("new_holder")), SExpr(Dot(Id("o"), Id("touch"))),
             SExpr(Dot(Id("o"), Dot(Id("ts"), Id("x"))))>>),
      Ok(IntV(1001)), << <<"o", HolderV(<<IntV(1), IntV(2)>>, TSV(1001))>> >> >>,
    <<"method_style",
      Prog(<<Let("o", Call0("new_ts")), SExpr(FnCall("update", <<Id("o")>>)),
             SExpr(Dot(Id("o"), Id("x")))>>),
      Ok(IntV(1)), << <<"o", TSV(1)>> >> >>,
    <<"method_style",
      Prog(<<Let("o", Call0("new_ts")), SExpr(Dot(Id("o"), Call0("update"))),
             SExpr(Dot(Id("o"), Id("x")))>>),
      Ok(IntV(1001)), << <<"o", TSV(1001)>> >> >>,
    <<"method_style",
      Prog(<<Let("a", ArrTS), SExpr(FnCall("update", <<Index("a", I(0))>>)),
             SExpr(Dot(Index("a", I(0)), Id("x")))>>),
      Ok(IntV(1)), << <<"a", ArrV(<<TSV(1)>>)>> >> >>,
    <<"method_style",
      Prog(<<Let("a", ArrTS), SExpr(Dot(Index("a", I(0)), Call0("update"))),
             SExpr(Dot(Index("a", I(0)), Id("x")))>>),
      Ok(IntV(1001)), << <<"a", ArrV(<<TSV(1001)>>)>> >> >>,
    <<"method_style",
      Prog(<<Let("o", Call0("new_ts")), SExpr(FnCall("update", <<Id("o")>>)),
             SExpr(Dot(Id("o"), Call0("update"))), SExpr(FnCall("update", <<Id("o")>>)),
             SExpr(Dot(Id("o"), Id("x")))>>),
      Ok(IntV(1001)), << <<"o", TSV(1001)>> >> >>,
    <<"get_chain",
      Prog(<<Let("o", Call0("new_holder")),
             SExpr(Dot(Id("o"), Dot(Id("ts"), Call0("update")))),
             SExpr(Dot(Id("o"), Dot(Id("ts"), Id("x"))))>>),
      Ok(IntV(1)), << <<"o", HolderV(<<IntV(1), IntV(2)>>, TSV(1))>> >> >>,
    <<"get_chain",
      Prog(<<Let("o", Call0("new_holder")),
             SExpr(Dot(Id("o"), Dot(Id("touch"), Call0("update")))),
             SExpr(Dot(Id("o"), Dot(Id("ts"), Id("x"))))>>),
      Ok(IntV(1001)), << <<"o", HolderV(<<IntV(1), IntV(2)>>, TSV(1001))>> >> >>,
    <<"get_chain",
      Prog(<<Let("a", Array(<<Call0("new_holder")>>)),
             SExpr(Dot(Index("a", I(0)), Dot(Id("ts"), Call0("update")))),
             SExpr(Dot(Index("a", I(0)), Dot(Id("ts"), Id("x"))))>>),
      Ok(IntV(1)), << <<"a", ArrV(<<HolderV(<<IntV(1), IntV(2)>>, TSV(1))>>)>> >> >>,
    <<"get_chain",
      Prog(<<Let("o", Call0("new_holder")), Let("t", Dot(Id("o"), Id("ts"))),
             SExpr(Dot(Id("t"), Call0("update"))),
             Set(Dot(Id("o"), Id("ts")), Id("t")),
             SExpr(Dot(Id("o"), Dot(Id("ts"), Id("x"))))>>),
      Ok(IntV(1001)),
      << <<"o", HolderV(<<IntV(1), IntV(2)>>, TSV(1001))>>, <<"t", TSV(1001)>> >> >>,
    <<"no_rollback",
      Prog(<<Let("x", I(1)), Set(Id("x"), I(2)), Let("y", Arr3),
             Set(Index("y", I(0)), I(7)), SExpr(Id("zz")),
             Set(Id("x"), I(9)), Let("w", I(1))>>),
      Err("ErrorVariableNotFound", "zz"),
      << <<"x", IntV(2)>>, <<"y", ArrV(<<IntV(7), IntV(2), IntV(3)>>)>> >> >>,
    <<"no_rollback",
      Prog(<<Let("x", I(1)), Let("x", I(2)), SExpr(FnCall("nofn", <<Id("x")>>)),
             Let("x", I(3))>>),
      Err("ErrorFunctionNotFound", "nofn (integer)"),
      << <<"x", IntV(1)>>, <<"x", IntV(2)>> >> >>,
    <<"no_rollback",
      Prog(<<Let("x", I(1)), Let("u", Id("zz")), Set(Id("x"), I(9))>>),
      Err("ErrorVariableNotFound", "zz"), << <<"x", IntV(1)>> >> >>,
    <<"no_rollback",
      Prog(<<Let("x", I(1)),
             While(True, Block(<<Inc("x", 1), Let("t", I(0)), SExpr(Index("x", I(0)))>>)),
             Set(Id("x"), I(9))>>),
      Err("ErrorIndexMismatch", ""), << <<"x", IntV(2)>> >> >>,
    <<"arity",
      Parsed(<<Let("k", I(1)), SExpr(FnCall("f", <<I(5)>>))>>,
             <<FnDef("f", <<"x", "y">>, Block(<<SExpr(Id("x"))>>))>>),
      Ok(IntV(5)), << <<"k", IntV(1)>> >> >>,
    <<"arity",
      Parsed(<<Let("k", I(2)), SExpr(FnCall("f", <<I(1), I(2), I(3)>>))>>,
             <<FnDef("f", <<"x">>, Block(<<SExpr(Id("x"))>>))>>),
      Ok(IntV(1)), << <<"k", IntV(2)>> >> >>,
    <<"arity",
      Parsed(<<Let("k", I(3)), SExpr(FnCall("f", <<I(1)>>))>>,
             <<FnDef("f", <<"x", "y">>,
                     Block(<<IfElse(Bin("==", Id("x"), I(1)), Block(<<SExpr(I(7))>>),
                                    Block(<<SExpr(Id("y"))>>))>>))>>),
      Ok(IntV(7)), << <<"k", IntV(3)>> >> >>,
    <<"arity",
      Parsed(<<Let("k", I(4)), SExpr(FnCall("f", <<I(2)>>))>>,
             <<FnDef("f", <<"x", "y">>,
                     Block(<<IfElse(Bin("==", Id("x"), I(1)), Block(<<SExpr(I(7))>>),
                                    Block(<<SExpr(Id("y"))>>))>>))>>),
      Err("ErrorVariableNotFound", "y"), << <<"k", IntV(4)>> >> >>,
    <<"arity",
      Parsed(<<Let("k", I(5)), SExpr(Call0("f"))>>,
             <<FnDef("f", <<"x">>, Block(<<SExpr(I(3))>>))>>),
      Ok(IntV(3)), << <<"k", IntV(5)>> >> >>,
    <<"arity",
      Parsed(<<Let("k", I(6)), SExpr(FnCall("f", <<I(1), Id("zz")>>))>>,
             <<FnDef("f", <<"x">>, Block(<<SExpr(Id("x"))>>))>>),
      Err("ErrorVariableNotFound", "zz"), << <<"k", IntV(6)>> >> >>,
    <<"arity",
      Parsed(<<Let("a", I(8)), SExpr(Dot(Id("a"), Call0("f")))>>,
             <<FnDef("f", <<"x", "y">>, Block(<<SExpr(Id("x"))>>))>>),
      Ok(IntV(8)), << <<"a", IntV(8)>> >> >>,
    <<"natives", Prog(<<SExpr(Bin("|", I(6), I(3)))>>), Ok(IntV(7)), <<>> >>,
    <<"natives", Prog(<<SExpr(Bin("&", I(6), I(3)))>>), Ok(IntV(2)), <<>> >>,
    <<"natives", Prog(<<SExpr(Bin("^", I(6), I(3)))>>), Ok(IntV(5)), <<>> >>,
    <<"natives", Prog(<<SExpr(Bin("|", Neg(I(6)), I(3)))>>), Ok(IntV(-5)), <<>> >>,
    <<"natives", Prog(<<SExpr(Bin("<<", I(6), I(3)))>>), Ok(IntV(48)), <<>> >>,
    <<"natives", Prog(<<SExpr(Bin(">>", Neg(I(7)), I(1)))>>), Ok(IntV(-4)), <<>> >>,
    <<"natives", Prog(<<SExpr(Bin("|", True, False))>>), Ok(BoolV(TRUE)), <<>> >>,
    <<"natives", Prog(<<SExpr(Bin("&", True, False))>>), Ok(BoolV(FALSE)), <<>> >>,
    <<"natives", Prog(<<SExpr(Bin("<", StringConst("a"), StringConst("b")))>>),
      Ok(BoolV(TRUE)), <<>> >>,
    <<"natives", Prog(<<SExpr(Bin(">=", StringConst("ab"), StringConst("b")))>>),
      Ok(BoolV(FALSE)), <<>> >>,
    <<"natives", Prog(<<SExpr(Bin("+", FloatConst(<<3, 2>>), FloatConst(<<2, 1>>)))>>),
      Ok(FloatV(<<7, 2>>)), <<>> >>,
    <<"natives",
      Prog(<<SExpr(Bin("-", Bin("*", FloatConst(<<3, 2>>), FloatConst(<<2, 1>>)),
                       FloatConst(<<3, 1>>)))>>),
      Ok(FloatV(<<0, 1>>)), <<>> >>,
    <<"natives", Prog(<<SExpr(Bin("/", FloatConst(<<1, 1>>), FloatConst(<<0, 1>>)))>>),
      Ok(FloatV(<<1, 0>>)), <<>> >>,
    <<"natives", Prog(<<SExpr(Neg(FloatConst(<<3, 2>>)))>>), Ok(FloatV(<<-3, 2>>)), <<>> >>,
    <<"natives", Prog(<<SExpr(Bin("<", FloatConst(<<3, 2>>), FloatConst(<<2, 1>>)))>>),
      Ok(BoolV(TRUE)), <<>> >>,
    <<"natives", Prog(<<SExpr(Bin("==", FloatConst(<<3, 2>>), FloatConst(<<3, 2>>)))>>),
      Ok(BoolV(TRUE)), <<>> >>,
    <<"natives", Prog(<<SExpr(Bin("~", FloatConst(<<2, 1>>), I(3)))>>),
      Ok(FloatV(<<8, 1>>)), <<>> >>,
    <<"natives", Prog(<<SExpr(Bin("~", FloatConst(<<3, 2>>), FloatConst(<<2, 1>>)))>>),
      Ok(FloatV(<<9, 4>>)), <<>> >>,
    <<"natives", Prog(<<SExpr(Bin("~", I(0), Neg(I(1))))>>), Ok(IntV(0)), <<>> >>,
    <<"natives", Prog(<<SExpr(Bin("~", Neg(I(1)), Neg(I(1))))>>), Ok(IntV(-1)), <<>> >>,
    <<"extras",
      Prog(<<Let("o", Call0("new_ts")), Set(Dot(Id("o"), Id("w")), I(5)),
             SExpr(Dot(Id("o"), Id("w")))>>),
      Err("ErrorFunctionNotFound",
          "set$w (<unknown> TypeId(Box<Any>),integer)"),
      << <<"o", TSV(1)>> >> >>,
    <<"natives", Prog(<<SExpr(Bin("<<", I(4), I(63)))>>), Ok(IntV(0)), <<>> >>,
    <<"natives", Prog(<<SExpr(Bin("<<", Neg(I(1)), I(31)))>>), Ok(IntV(-2147483647 - 1)), <<>> >>,
    <<"natives", Prog(<<SExpr(Bin("~", Neg(I(2)), I(31)))>>), Ok(IntV(-2147483647 - 1)), <<>> >>,
    <<"natives", Prog(<<SExpr(Bin("~", I(2), I(64)))>>),
      IF overflow_checks THEN Panic ELSE Ok(IntV(0)), <<>> >>,
    <<"unnamed", Prog(<<SExpr(Call0("new_ts"))>>),
      Err("ErrorMismatchOutputType", "<unknown> TypeId(Box<Any>)"), <<>> >>,
    <<"unnamed", Prog(<<SExpr(Call0("new_holder"))>>),
      Err("ErrorMismatchOutputType", "<unknown> TypeId(Box<Any>)"), <<>> >>,
    <<"unnamed", Prog(<<Let("x", I(1))>>),
      Err("ErrorMismatchOutputType", "<unknown> TypeId(Box<Any>)"), << <<"x", IntV(1)>> >> >>,
    <<"unnamed", Prog(<<SExpr(FnCall("nofn", <<Call0("new_ts")>>))>>),
      Err("ErrorFunctionNotFound", "nofn (<unknown> TypeId(Box<Any>))"), <<>> >>,
    <<"unnamed", Prog(<<SExpr(FnCall("nofn", <<Call0("new_holder"), I(1), Unit>>))>>),
      Err("ErrorFunctionNotFound",
          "nofn (<unknown> TypeId(Box<Any>),integer,<unknown> TypeId(Box<Any>))"), <<>> >> }

\* calls resolved by exact types, by the wildcard entry, or not at all
DispatchPrograms ==
  LET ScriptUpdate == FnDef("update", <<"a">>, Block(<<SExpr(I(7))>>))
  IN
  { Parsed(<<SExpr(FnCall("update", <<a>>))>>, <<ScriptUpdate>>) :
      a \in {Call0("new_ts"), I(5)} }
  \cup { Parsed(<<SExpr(FnCall("update", <<I(1), I(2)>>))>>, <<ScriptUpdate>>),
         Prog(<<SExpr(FnCall("update", <<I(5)>>))>>),
         Prog(<<SExpr(FnCall("foo", <<I(1), True>>))>>),
         Prog(<<SExpr(FnCall("foo", <<Unit, Arr1, Call0("new_ts")>>))>>),
         Prog(<<SExpr(FnCall("count", <<I(1), I(2)>>))>>),
         Prog(<<SExpr(Call0("count"))>>) }

\* break and return outside any loop or function
SignalPrograms ==
  { Prog(<<Break>>),
    Prog(<<Return>>),
    Prog(<<ReturnWithVal(I(5))>>),
    Prog(<<Let("x", I(1)), If(True, Block(<<Break>>)), SExpr(Id("x"))>>),
    Prog(<<Loop(Block(<<Break>>))>>),
    Prog(<<While(True, Block(<<ReturnWithVal(I(5))>>))>>),
    ParseError }

\* An integer as the source writes it: `-n` is the unary minus of a literal.
Lit(n) == IF n < 0 THEN Neg(I(-n)) ELSE I(n)

ArithInts == {-7, -1, 0, 2, 5}

\* The operator examples of tests/unary_minus.rs and of the default library,
\* each with the type the host asks for and the value expected, and -, unary -
\* and + over ArithInts.
ArithCases ==
  { <<Prog(<<SExpr(Bin("+", I(1), I(2)))>>), IntV(3)>>,
    <<Prog(<<SExpr(Bin("+", StringConst("a"), StringConst("b")))>>), StrV("ab")>>,
    <<Prog(<<SExpr(FnCall("!", <<True>>))>>), BoolV(FALSE)>>,
    <<Prog(<<SExpr(Neg(Neg(I(5))))>>), IntV(5)>>,
    <<Prog(<<SExpr(Bin("%", I(5), I(3)))>>), IntV(2)>>,
    <<Prog(<<SExpr(Bin("~", I(2), I(10)))>>), IntV(1024)>>,
    <<Prog(<<Let("x", Neg(I(5))), SExpr(Id("x"))>>), IntV(-5)>>,
    <<Prog(<<SExpr(Bin("-", I(5), Neg(Neg(I(5)))))>>), IntV(0)>> }
  \cup { <<Prog(<<SExpr(Bin("-", Lit(a), Lit(b)))>>), IntV(a - b)>> :
           a \in ArithInts, b \in ArithInts }
  \cup { <<Prog(<<SExpr(Bin("+", Lit(a), Lit(b)))>>), IntV(a + b)>> :
           a \in ArithInts, b \in ArithInts }
  \cup { <<Prog(<<SExpr(Neg(Lit(a)))>>), IntV(0 - a)>> : a \in ArithInts }

Req(op, input, T) == [op |-> op, input |-> input, T |-> T, ident |-> "", args |-> <<>>]
CallReq(ident, args, T) ==
  [op |-> "call_fn", input |-> Prog(<<>>), T |-> T, ident |-> ident, args |-> args]

CallFnRequests ==
  { CallReq("update", <<TSV(1)>>, "unit"),
    CallReq("update", <<IntV(5)>>, "i64"),
    CallReq("f", <<IntV(5)>>, "i64"),
    CallReq("+", <<IntV(1), IntV(2)>>, "i64"),
    CallReq("+", <<IntV(1), BoolV(TRUE)>>, "i64"),
    CallReq("count", <<IntV(1), IntV(2)>>, "i64"),
    CallReq("new_ts", <<>>, "i64"),
    CallReq("~", <<IntV(2), IntV(-1)>>, "i64"),
    CallReq("<<", <<IntV(1), IntV(64)>>, "i64"),
    CallReq(">>", <<IntV(-8), IntV(-63)>>, "i64"),
    CallReq("~", <<IntV(2), IntV(64)>>, "i64"),
    CallReq("<<", <<IntV(4), IntV(63)>>, "i64"),
    CallReq("<<", <<IntV(-8), IntV(-1)>>, "i64") }

\* The first call on an engine ranges over all programs.
FirstCalls ==
  LET Programs ==
        ResultPrograms \cup IndexPrograms \cup DotPrograms \cup FnPrograms
        \cup BlockPrograms \cup DispatchPrograms \cup SignalPrograms
        \cup WhilePrograms \cup IndexReadPrograms
      \* the type T of eval::<T>
      OutTypes == {"i64", "unit"}
  IN
  { Req("eval_with_scope", p, T) : p \in Programs, T \in OutTypes }
  \cup { Req("eval", p, T) : p \in SignalPrograms \cup ResultPrograms, T \in OutTypes }
  \cup { Req("consume_with_scope", p, "unit") : p \in SignalPrograms \cup BlockPrograms }
  \cup { Req("consume", p, "unit") : p \in SignalPrograms }
  \cup { Req("eval", c[1], type_id(c[2])) : c \in ArithCases }
  \cup { Req("eval_with_scope", c[1], "i64") : c \in AliasCases }
  \cup { Req("eval_with_scope", c[2], IF IsOk(c[3]) THEN type_id(c[3].val) ELSE "i64") :
           c \in Scenarios }
  \cup { Req("consume_with_scope", c[2], "unit") :
           c \in {d \in Scenarios : d[1] = "no_rollback"} }
  \cup { Req("eval_with_scope", c[1], "i64") : c \in CallCases }
  \cup { Req("eval_with_scope", ReturnProgram(c[1]), type_id(c[2])) : c \in ReturnCases }
  \cup { Req(op, p, "i64") : op \in {"eval", "eval_with_scope"}, p \in CapPrograms }
  \cup { Req(op, p, "unit") : op \in {"consume", "consume_with_scope"}, p \in CapPrograms }
  \cup { Req("eval_file", f, "i64") : f \in {NoFile} \cup CapPrograms }
  \cup { Req("consume_file", f, "unit") : f \in {NoFile} \cup CapPrograms }
  \cup CallFnRequests

\* Later calls read and update what the earlier ones left in the scope and
\* in the registry.
LaterCalls ==
  { Req("eval_with_scope", p, "i64") :
      p \in { Prog(<<SExpr(Id("x"))>>),
              Prog(<<SExpr(Bin("+", Id("x"), I(1)))>>),
              Prog(<<Set(Index("y", I(1)), I(5)), SExpr(Index("y", I(1)))>>),
              Prog(<<Block(<<Let("x", I(2)), Let("q", I(3)), Set(Id("x"), I(4))>>),
                     SExpr(Id("x"))>>),
              Prog(<<SExpr(Dot(Id("o"), Call0("update"))), SExpr(Dot(Id("o"), Id("x")))>>),
              Prog(<<Set(Dot(Index("a", I(0)), Id("x")), I(5)),
                     SExpr(Dot(Index("a", I(0)), Id("x")))>>),
              Prog(<<SExpr(FnCall("f", <<I(5)>>))>>),
              Parsed(<<SExpr(FnCall("f", <<I(2), I(3)>>))>>,
                     <<FnDef("f", <<"a", "b">>,
                             Block(<<SExpr(Bin("-", Id("a"), Id("b")))>>))>>),
              Prog(<<Break>>) } }
  \cup { Req("eval", Prog(<<SExpr(Id("x"))>>), "i64"),
         Req("consume_with_scope", Prog(<<Let("x", I(8)), Return>>), "unit"),
         Req("eval_with_scope", ParseError, "i64"),
         Req("eval_file", NoFile, "i64"),
         Req("eval_file", Prog(<<SExpr(FnCall("h", <<I(5)>>))>>), "i64"),
         Req("consume_file", NoFile, "unit"),
         Req("consume_file", Prog(<<SExpr(FnCall("h", <<I(5)>>))>>), "unit"),
         Req("consume_with_scope", ParseError, "unit"),
         Req("consume", Prog(<<SExpr(FnCall("update", <<I(5)>>))>>), "unit") }
  \cup { c \in CallFnRequests : c.ident \in {"update", "f", "count"} }

Requests == IF calls = 0 THEN FirstCalls ELSE LaterCalls

\* The registrations a host makes before it evaluates, in its order
\* (tests/arrays.rs, then the Holder type and the raw closure).
HostSetup ==
  << [api |-> "register_get_set", name |-> "x", T |-> "TS", U |-> "i64",
      get |-> "TestStruct::get_x", set |-> "TestStruct::set_x"],
     [api |-> "register_fn", name |-> "update", tys |-> <<"TS">>,
      nat |-> "TestStruct::update"],
     [api |-> "register_fn", name |-> "new_ts", tys |-> <<>>, nat |-> "TestStruct::new"],
     [api |-> "register_fn", name |-> "new_holder", tys |-> <<>>, nat |-> "Holder::new"],
     [api |-> "register_get", name |-> "items", T |-> "Holder",
      get |-> "Holder::get_items"],
     [api |-> "register_get_set", name |-> "ts", T |-> "Holder", U |-> "TS",
      get |-> "Holder::get_ts", set |-> "Holder::set_ts"],
     [api |-> "register_fn_raw", name |-> "count", nat |-> "raw_count"],
     [api |-> "register_get", name |-> "touch", T |-> "Holder",
      get |-> "Holder::touch"] >>

\* What a host may register on top of that: display names (for a host type,
\* and for i64 in place of the default "integer") and a setter that has no
\* getter; then the default library once more.
HostExtras ==
  << [api |-> "register_type_name", T |-> "TS", name |-> "TestStruct"],
     [api |-> "register_type_name", T |-> "i64", name |-> "int"],
     [api |-> "register_set", name |-> "w", T |-> "TS", U |-> "i64",
      set |-> "TestStruct::set_x"],
     [api |-> "register_default_lib"] >>

HostSteps == HostSetup \o HostExtras

(* ------------------------------- actions ------------------------------ *)

Self == Engine(fns, type_names, MaxDepth)

Init ==
  /\ fns = DefaultFns
  /\ type_names = DefaultTypeNames
  /\ my_scope = <<>>
  /\ prev_scope = <<>>
  /\ last = Req("new", Prog(<<>>), "unit")
  /\ result = Ok(UnitV)
  /\ calls = 0
  /\ nreg = 0
  /\ aborted = FALSE
  /\ overflow_checks \in BOOLEAN

\* The host registers before it evaluates, one step of HostSteps at a time.
CanRegister(api) ==
  /\ ~aborted /\ calls = 0
  /\ nreg < Len(HostSteps)
  /\ HostSteps[nreg + 1].api = api

Registered(m) ==
  /\ fns' = m
  /\ nreg' = nreg + 1
  /\ UNCHANGED <<type_names, my_scope, prev_scope, last, result, calls, aborted,
                 overflow_checks>>

RegisterFn ==
  /\ CanRegister("register_fn")
  /\ LET h == HostSteps[nreg + 1] IN Registered(register_fn(fns, h.name, h.nat, h.tys))

RegisterGet ==
  /\ CanRegister("register_get")
  /\ LET h == HostSteps[nreg + 1] IN Registered(register_get(fns, h.name, h.get, h.T))

RegisterGetSet ==
  /\ CanRegister("register_get_set")
  /\ LET h == HostSteps[nreg + 1]
     IN Registered(register_get_set(fns, h.name, h.get, h.set, h.T, h.U))

RegisterFnRaw ==
  /\ CanRegister("register_fn_raw")
  /\ LET h == HostSteps[nreg + 1]
     IN Registered(register_fn_raw(fns, h.name, None, FnExtRaw(h.nat)))

RegisterSet ==
  /\ CanRegister("register_set")
  /\ LET h == HostSteps[nreg + 1]
     IN Registered(register_set(fns, h.name, h.set, h.T, h.U))

RegisterTypeName ==
  /\ CanRegister("register_type_name")
  /\ LET h == HostSteps[nreg + 1]
     IN type_names' = register_type_name(type_names, h.T, h.name)
  /\ nreg' = nreg + 1
  /\ UNCHANGED <<fns, my_scope, prev_scope, last, result, calls, aborted,
                 overflow_checks>>

RegisterDefaultLib ==
  /\ CanRegister("register_default_lib")
  /\ fns' = register_default_lib(Self).fns
  /\ type_names' = register_default_lib(Self).type_names
  /\ nreg' = nreg + 1
  /\ UNCHANGED <<my_scope, prev_scope, last, result, calls, aborted, overflow_checks>>

\* An evaluation call is made on a new engine, on one set up by HostSetup,
\* on one that has the extras too, or on one given the default library anew.
CanCall(c, op) ==
  /\ ~aborted /\ calls < MaxCalls
  /\ nreg \in {0, Len(HostSetup), Len(HostSteps) - 1, Len(HostSteps)}
  /\ c.op = op

\* The call returns r: a call that diverges never does.
Returns(c, r) ==
  /\ r.k # "Diverge"
  /\ result' = r
  /\ last' = c
  /\ calls' = calls + 1
  /\ aborted' = (r.k = "Panic")
  /\ prev_scope' = my_scope
  /\ UNCHANGED <<type_names, nreg, overflow_checks>>

EvalWithScope(c) ==
  /\ CanCall(c, "eval_with_scope")
  /\ LET o == rec_eval_with_scope(Self, my_scope, c.input, c.T)
     IN Returns(c, o.r) /\ fns' = o.fns /\ my_scope' = o.sc

Eval(c) ==
  /\ CanCall(c, "eval")
  /\ LET o == eval(Self, c.input, c.T)
     IN Returns(c, o.r) /\ fns' = o.fns /\ UNCHANGED my_scope

ConsumeWithScope(c) ==
  /\ CanCall(c, "consume_with_scope")
  /\ LET o == rec_consume_with_scope(Self, my_scope, c.input)
     IN Returns(c, o.r) /\ fns' = o.fns /\ my_scope' = o.sc

Consume(c) ==
  /\ CanCall(c, "consume")
  /\ LET o == consume(Self, c.input)
     IN Returns(c, o.r) /\ fns' = o.fns /\ UNCHANGED my_scope

EvalFile(c) ==
  /\ CanCall(c, "eval_file")
  /\ LET o == eval_file(Self, c.input, c.T)
     IN Returns(c, o.r) /\ fns' = o.fns /\ UNCHANGED my_scope

ConsumeFile(c) ==
  /\ CanCall(c, "consume_file")
  /\ LET o == consume_file(Self, c.input)
     IN Returns(c, o.r) /\ fns' = o.fns /\ UNCHANGED my_scope

CallFn(c) ==
  /\ CanCall(c, "call_fn")
  /\ Returns(c, rec_call_fn(Self, c.ident, c.args, c.T))
  /\ UNCHANGED <<fns, my_scope>>

Next ==
  \/ RegisterFn
  \/ RegisterGet
  \/ RegisterGetSet
  \/ RegisterFnRaw
  \/ RegisterSet
  \/ RegisterTypeName
  \/ RegisterDefaultLib
  \/ \E c \in Requests : EvalWithScope(c)
  \/ \E c \in Requests : Eval(c)
  \/ \E c \in Requests : ConsumeWithScope(c)
  \/ \E c \in Requests : Consume(c)
  \/ \E c \in Requests : EvalFile(c)
  \/ \E c \in Requests : ConsumeFile(c)
  \/ \E c \in Requests : CallFn(c)

Spec == Init /\ [][Next]_vars

(* ------------------------------- claims ------------------------------- *)

\* The statements of the last call's program and the scope it started in.
os_last == last.input.os
StartScope == IF last.op \in {"eval", "consume"} THEN <<>> ELSE prev_scope

\* The scope and outcome after the first k top-level statements of the last
\* call (the registry already holds the program's functions).
Before(k) == rec_top_loop(Self, StartScope, SubSeq(os_last, 1, k), Ok(UnitV))

\* The last call evaluated a parsed program for its value.
Evaluated == last.op \in {"eval", "eval_with_scope"} /\ last.input.ok

\* The last call ran a parsed program.
Ran ==
  /\ last.op \in {"eval", "eval_with_scope", "consume", "consume_with_scope"}
  /\ last.input.ok

\* The display name of type t: the name registered for it in type_names,
\* else `<unknown> ` and the type's own token.
DisplayName(t) ==
  IF t \in DOMAIN type_names THEN type_names[t]
  ELSE "<unknown> TypeId(" \o t \o ")"

\* What the engine prints for type t: the name registered for it, else one
\* text, that of the box, for every type without a name.
PrintedName(t) ==
  IF t \in DOMAIN type_names THEN type_names[t]
  ELSE "<unknown> TypeId(Box<Any>)"

\* The value the last top-level statement leaves: Unit for no statement, a
\* let or an assignment.
ValueOfLast ==
  IF Len(os_last) = 0 THEN UnitV
  ELSE LET s == os_last[Len(os_last)]
       IN IF s[1] = "Var" \/ (s[1] = "Expr" /\ s[2][1] = "Assignment") THEN UnitV
          ELSE rec_eval_stmt(Self, Before(Len(os_last) - 1).sc, s).r.val

\* C1: when every top-level statement of a parsed program evaluates without
\* error, eval::<T> and eval_with_scope::<T> return the value of the last
\* statement (Unit for an empty program, a let or an assignment) if it has
\* type T, and ErrorMismatchOutputType with the type's display name if not.
C1_EvalReturnsLastValue ==
  (Evaluated /\ IsOk(Before(Len(os_last)).r)) =>
    result = IF type_id(ValueOfLast) = last.T THEN Ok(ValueOfLast)
             ELSE Err("ErrorMismatchOutputType", DisplayName(type_id(ValueOfLast)))

\* `new_ts()` was evaluated as i64 on an engine that has no name for
\* TestStruct: the value of the last statement is a TestStruct, and the error
\* carries the text of the box, not the display name of TestStruct.
C1_Witness ==
  /\ Evaluated /\ IsOk(Before(Len(os_last)).r)
  /\ os_last = <<SExpr(Call0("new_ts"))>> /\ last.T = "i64"
  /\ ValueOfLast = TSV(1) /\ "TS" \notin DOMAIN type_names
  /\ DisplayName(type_id(ValueOfLast)) = "<unknown> TypeId(TS)"
  /\ result = Err("ErrorMismatchOutputType", "<unknown> TypeId(Box<Any>)")

\* Statement k of the last call is reached: the statements before it
\* evaluated without error.
Reached(k) == k \in 1..Len(os_last) /\ IsOk(Before(k - 1).r)

\* Statement s is `y[i] = rhs` with a literal integer i.
IsIndexSet(s) ==
  /\ s[1] = "Expr" /\ s[2][1] = "Assignment"
  /\ s[2][2][1] = "Index" /\ s[2][2][3][1] = "IntConst"

\* In scope sc, y is bound to an array that has a slot i.
HasSlot(sc, y, i) ==
  /\ rfind(sc, y) # 0
  /\ type_id(sc[rfind(sc, y)][2]) = "array"
  /\ 0 <= i /\ i < Len(sc[rfind(sc, y)][2].v)

\* `y[i] = rhs` evaluated in sc0 gave sc1: y[i] reads as the value of rhs,
\* and the length of y, its other elements and the other bindings are as
\* they were.
StoredAt(sc0, sc1, y, i, rhs) ==
  LET p == rfind(sc0, y)
      v == rec_eval_expr(Self, sc0, rhs).r.val
  IN /\ rec_eval_expr(Self, sc1, Index(y, IntConst(i))).r = Ok(v)
     /\ Len(sc1) = Len(sc0)
     /\ \A q \in 1..Len(sc0) : q # p => sc1[q] = sc0[q]
     /\ sc1[p][1] = y /\ type_id(sc1[p][2]) = "array"
     /\ Len(sc1[p][2].v) = Len(sc0[p][2].v)
     /\ \A j \in 1..Len(sc0[p][2].v) : j # i + 1 => sc1[p][2].v[j] = sc0[p][2].v[j]

\* C2: for an array bound to y and 0 <= i < len(y), after `y[i] = v` the
\* expression y[i] evaluates to v, and the length of y and every other
\* element of y are unchanged.
C2_IndexAssignThenRead ==
  Ran =>
    \A k \in 1..Len(os_last) :
      (/\ Reached(k) /\ IsIndexSet(os_last[k])
       /\ HasSlot(Before(k - 1).sc, os_last[k][2][2][2], os_last[k][2][2][3][2])
       /\ IsOk(rec_eval_expr(Self, Before(k - 1).sc, os_last[k][2][3]).r))
      => /\ IsOk(Before(k).r)
         /\ StoredAt(Before(k - 1).sc, Before(k).sc, os_last[k][2][2][2],
                     os_last[k][2][2][3][2], os_last[k][2][3])

\* `let y = [1, 2, 3]; y[2] = true; y[2]` was evaluated.
C2_Witness ==
  /\ Ran /\ Len(os_last) = 3 /\ Reached(2) /\ IsIndexSet(os_last[2])
  /\ os_last[2][2][2][3][2] = 2 /\ os_last[2][2][3] = True
  /\ Before(1).sc = << <<"y", ArrV(<<IntV(1), IntV(2), IntV(3)>>)>> >>
  /\ Before(2).sc = << <<"y", ArrV(<<IntV(1), IntV(2), BoolV(TRUE)>>)>> >>
  /\ result = Err("ErrorMismatchOutputType", "boolean")

\* The array an index access of statement s reads or writes in scope sc, and
\* the literal index it uses: `x[i]`, `x[i] = v`, `x[i].p`, `x[i].p = v` on
\* the array bound to x, and `o.p[i]` on the array that get$p returns for o.
\* none when s is no such access.
IndexAccess(sc, s) ==
  LET none == [found |-> FALSE, arr |-> <<>>, i |-> 0]
      of_var(x, i) ==
        IF rfind(sc, x) # 0 /\ type_id(sc[rfind(sc, x)][2]) = "array"
        THEN [found |-> TRUE, arr |-> sc[rfind(sc, x)][2].v, i |-> i]
        ELSE none
      of_expr(e) ==
        CASE e[1] = "Index" /\ e[3][1] = "IntConst" -> of_var(e[2], e[3][2])
          [] e[1] = "Dot" /\ e[2][1] = "Index" /\ e[2][3][1] = "IntConst" ->
               of_var(e[2][2], e[2][3][2])
          [] e[1] = "Dot" /\ e[2][1] = "Identifier" /\ e[3][1] = "Index"
             /\ e[3][3][1] = "IntConst" /\ rfind(sc, e[2][2]) # 0 ->
               LET g == rec_call_fn_raw(Self, "get$" \o e[3][2],
                                        <<sc[rfind(sc, e[2][2])][2]>>).r
               IN IF IsOk(g) /\ type_id(g.val) = "array"
                  THEN [found |-> TRUE, arr |-> g.val.v, i |-> e[3][3][2]]
                  ELSE none
          [] OTHER -> none
  IN IF s[1] # "Expr" THEN none
     ELSE IF s[2][1] = "Assignment"
     THEN IF IsOk(rec_eval_expr(Self, sc, s[2][3]).r) THEN of_expr(s[2][2]) ELSE none
     ELSE of_expr(s[2])

\* Statement k of the last call is an index access outside its array.
OutOfRange(k) ==
  /\ Reached(k)
  /\ LET a == IndexAccess(Before(k - 1).sc, os_last[k])
     IN a.found /\ (a.i < 0 \/ a.i >= Len(a.arr))

\* C3: an index access with a negative index or one >= the array's length
\* (in `x[i]`, `x[i] = v`, `x[i].p` and `o.p[i]`) returns ErrorIndexMismatch
\* to the caller, without aborting, and leaves the scope as it was.
C3_OutOfRangeIsIndexMismatch ==
  Ran =>
    \A k \in 1..Len(os_last) :
      OutOfRange(k) =>
        /\ result = Err("ErrorIndexMismatch", "")
        /\ ~aborted
        /\ last.op \in {"eval_with_scope", "consume_with_scope"}
              => my_scope = Before(k - 1).sc

\* `let x = [1, 2, 3]; x[3]` aborted the call.
C3_Witness ==
  /\ Ran /\ Len(os_last) = 2 /\ OutOfRange(2)
  /\ os_last[2] = SExpr(Index("x", IntConst(3)))
  /\ result = Panic /\ aborted

\* Statement s is a dot expression on the receiver `a` or `a[i]` (i a
\* literal), read or assigned.
DotOf(s) ==
  IF s[1] = "Expr" /\ s[2][1] = "Dot" THEN s[2]
  ELSE IF s[1] = "Expr" /\ s[2][1] = "Assignment" /\ s[2][2][1] = "Dot" THEN s[2][2]
  ELSE <<"None">>

IsDirect(lhs) ==
  lhs[1] = "Identifier" \/ (lhs[1] = "Index" /\ lhs[3][1] = "IntConst")

\* The receiver lhs of a dot expression has a place in scope sc.
HasReceiver(sc, lhs) ==
  IF lhs[1] = "Identifier" THEN rfind(sc, lhs[2]) # 0
  ELSE HasSlot(sc, lhs[2], lhs[3][2])

\* What the storage of the receiver holds in sc.
Receiver(sc, lhs) ==
  IF lhs[1] = "Identifier" THEN sc[rfind(sc, lhs[2])][2]
  ELSE sc[rfind(sc, lhs[2])][2].v[lhs[3][2] + 1]

\* sc1 is sc0 with the storage of the receiver lhs holding v and nothing
\* else changed.
OnlyReceiverSet(sc0, sc1, lhs, v) ==
  /\ Len(sc1) = Len(sc0)
  /\ HasReceiver(sc1, lhs) /\ Receiver(sc1, lhs) = v
  /\ \A q \in 1..Len(sc0) :
       IF q # rfind(sc0, lhs[2]) THEN sc1[q] = sc0[q]
       ELSE /\ sc1[q][1] = sc0[q][1]
            /\ lhs[1] = "Index" =>
                 /\ Len(sc1[q][2].v) = Len(sc0[q][2].v)
                 /\ \A j \in 1..Len(sc0[q][2].v) :
                      j # lhs[3][2] + 1 => sc1[q][2].v[j] = sc0[q][2].v[j]

\* What the natives registered for TestStruct do to a receiver r when the
\* dot expression d with the assigned value w is evaluated on it.
AfterNative(r, s) ==
  LET d == DotOf(s)
  IN CASE s[2][1] = "Dot" /\ d[3] = FnCall("update", <<>>) -> TSV(r.v.x + 1000)
       [] s[2][1] = "Dot" /\ d[3] = Identifier("x") -> r
       [] s[2][1] = "Assignment" /\ d[3] = Identifier("x")
          /\ s[2][3][1] = "IntConst" -> TSV(s[2][3][2])
       [] OTHER -> UnitV

TheDotTest ==
  <<Let("a", ArrTS), Set(Dot(Index("a", I(0)), Id("x")), I(100)),
    SExpr(Dot(Index("a", I(0)), Call0("update"))),
    SExpr(Dot(Index("a", I(0)), Id("x")))>>

\* C4: in a dot expression whose receiver is a variable a or an element
\* a[i], what the native setter, getter or method did to the receiver is in
\* a's binding (in slot i of a's array) when the expression has finished,
\* and nothing else has changed; `a[0].x = 100; a[0].update(); a[0].x`
\* yields 1100 and `a[0].x` alone yields 1.
C4_DotWriteBack ==
  Ran =>
    /\ \A k \in 1..Len(os_last) :
         (/\ Reached(k) /\ DotOf(os_last[k])[1] = "Dot"
          /\ IsDirect(DotOf(os_last[k])[2])
          /\ HasReceiver(Before(k - 1).sc, DotOf(os_last[k])[2])
          /\ type_id(Receiver(Before(k - 1).sc, DotOf(os_last[k])[2])) = "TS"
          /\ AfterNative(Receiver(Before(k - 1).sc, DotOf(os_last[k])[2]),
                         os_last[k]) # UnitV)
         => /\ IsOk(Before(k).r)
            /\ OnlyReceiverSet(Before(k - 1).sc, Before(k).sc, DotOf(os_last[k])[2],
                 AfterNative(Receiver(Before(k - 1).sc, DotOf(os_last[k])[2]),
                             os_last[k]))
    /\ (Evaluated /\ last.T = "i64" /\ StartScope = <<>> /\ nreg = Len(HostSetup)) =>
         /\ os_last = TheDotTest => result = Ok(IntV(1100))
         /\ os_last = <<TheDotTest[1], TheDotTest[4]>> => result = Ok(IntV(1))

\* The test program has run: slot 0 of a holds x = 1100.
C4_Witness ==
  /\ Evaluated /\ last.T = "i64" /\ os_last = TheDotTest
  /\ result = Ok(IntV(1100))
  /\ Before(2).sc = << <<"a", ArrV(<<TSV(100)>>)>> >>
  /\ Before(3).sc = << <<"a", ArrV(<<TSV(1100)>>)>> >>

\* Statement s is `o.p = rhs` on a variable o.
IsPropertySet(s) ==
  /\ s[1] = "Expr" /\ s[2][1] = "Assignment" /\ s[2][2][1] = "Dot"
  /\ s[2][2][2][1] = "Identifier" /\ s[2][2][3][1] = "Identifier"

\* In scope sc the variable o holds a value whose type has a getter and a
\* setter registered for p, the setter for values of the type of v.
HasProperty(sc, o, p, v) ==
  /\ rfind(sc, o) # 0
  /\ FnSpec("get$" \o p, Some(<<type_id(sc[rfind(sc, o)][2])>>)) \in DOMAIN fns
  /\ FnSpec("set$" \o p, Some(<<type_id(sc[rfind(sc, o)][2]), type_id(v)>>))
       \in DOMAIN fns

\* C5: for a type with get$p and set$p registered for a scalar property p, a
\* variable o of that type and a value v of the property's type, `o.p = v`
\* followed by `o.p` yields v.
C5_SetThenGet ==
  Ran =>
    \A k \in 1..Len(os_last) :
      (/\ Reached(k) /\ IsPropertySet(os_last[k])
       /\ IsOk(rec_eval_expr(Self, Before(k - 1).sc, os_last[k][2][3]).r)
       /\ HasProperty(Before(k - 1).sc, os_last[k][2][2][2][2], os_last[k][2][2][3][2],
                      rec_eval_expr(Self, Before(k - 1).sc, os_last[k][2][3]).r.val))
      => /\ IsOk(Before(k).r)
         /\ rec_eval_expr(Self, Before(k).sc, os_last[k][2][2]).r
              = Ok(rec_eval_expr(Self, Before(k - 1).sc, os_last[k][2][3]).r.val)

\* `let o = new_ts(); o.x = -5; o.x` was evaluated and gave -5.
C5_Witness ==
  /\ Evaluated /\ Len(os_last) = 3 /\ Reached(2) /\ IsPropertySet(os_last[2])
  /\ os_last[2][2][3] = IntConst(-5)
  /\ os_last[3] = SExpr(os_last[2][2][2])
  /\ Before(1).sc = << <<"o", TSV(1)>> >>
  /\ last.T = "i64" /\ result = Ok(IntV(-5))

\* Statement s calls the script function the registry holds for its name,
\* with as many arguments as the function has parameters.
IsScriptCall(s) ==
  /\ s[1] = "Expr" /\ s[2][1] = "FnCall"
  /\ FnSpec(s[2][2], None) \in DOMAIN fns
  /\ fns[FnSpec(s[2][2], None)].kind = "Int"
  /\ Len(fns[FnSpec(s[2][2], None)].def.params) = Len(s[2][3])
  /\ Len(s[2][3]) > 0

\* The body of the function that statement s calls, evaluated with each
\* parameter bound to the value of its argument in scope sc.
BodyWithArgs(sc, s) ==
  LET f == fns[FnSpec(s[2][2], None)].def
      a == rec_eval_items(Self, sc, s[2][3])
  IN rec_eval_stmt([Self EXCEPT !.d = @ - 1],
                   [i \in 1..Len(f.params) |-> <<f.params[i], a.vals[i]>>], f.body)

\* C6: a call of a script function whose body ends without `return` yields
\* the value of the body's last statement: `fn f(x) { E } f(a)` equals E
\* evaluated with x bound to a copy of a, and `fn n(x) { -x } n(5)` is -5.
C6_ScriptCallYieldsBody ==
  Ran =>
    /\ \A k \in 1..Len(os_last) :
         (/\ Reached(k) /\ IsScriptCall(os_last[k])
          /\ IsOk(rec_eval_items(Self, Before(k - 1).sc, os_last[k][2][3]).r)
          /\ FnSpec(os_last[k][2][2],
                    Some(TypesOf(rec_eval_items(Self, Before(k - 1).sc,
                                                os_last[k][2][3]).vals)))
               \notin DOMAIN fns
          /\ IsOk(BodyWithArgs(Before(k - 1).sc, os_last[k]).r))
         => /\ Before(k).r = BodyWithArgs(Before(k - 1).sc, os_last[k]).r
            /\ Before(k).sc
                 = rec_eval_items(Self, Before(k - 1).sc, os_last[k][2][3]).sc
    /\ (Evaluated /\ last.T = "i64"
        /\ last.input = Parsed(<<SExpr(FnCall("n", <<I(5)>>))>>,
                               <<FnDef("n", <<"x">>, Block(<<SExpr(Neg(Id("x")))>>))>>))
       => result = Ok(IntV(-5))

\* `fn f(x) { let y = x; y * y } f(5)` was evaluated and gave 25.
C6_Witness ==
  /\ Evaluated /\ Len(os_last) = 1 /\ IsScriptCall(os_last[1])
  /\ os_last[1][2][3] = <<I(5)>>
  /\ Len(fns[FnSpec(os_last[1][2][2], None)].def.body[2]) = 2
  /\ BodyWithArgs(StartScope, os_last[1]).r = Ok(IntV(25))
  /\ last.T = "i64" /\ result = Ok(IntV(25))

\* The Block statements that evaluating statement s in scope sc enters
\* first, each with the scope it is entered in: s itself, the blocks among
\* its statements, and the block that is the body of an if, while or loop.
BlocksAt(sc, s) ==
  IF s[1] = "Block"
  THEN {<<sc, s>>}
       \cup { <<rec_block_loop(Self, sc, SubSeq(s[2], 1, j - 1), Ok(UnitV)).sc, s[2][j]>> :
                j \in { i \in 1..Len(s[2]) :
                          /\ s[2][i][1] = "Block"
                          /\ IsOk(rec_block_loop(Self, sc, SubSeq(s[2], 1, i - 1),
                                                 Ok(UnitV)).r) } }
  ELSE IF s[1] \in {"If", "While"} /\ s[3][1] = "Block"
          /\ rec_eval_expr(Self, sc, s[2]).r = Ok(BoolV(TRUE))
  THEN {<<rec_eval_expr(Self, sc, s[2]).sc, s[3]>>}
  ELSE IF s[1] = "Loop" /\ s[2][1] = "Block" THEN {<<sc, s[2]>>}
  ELSE {}

\* After the block blk entered in scope sc0, the scope is as long as sc0 and
\* has the names of sc0 at their positions.
KeepsScope(sc0, blk) ==
  LET o == rec_eval_stmt(Self, sc0, blk)
  IN ~Unwinds(o.r) =>
       /\ Len(o.sc) = Len(sc0)
       /\ \A q \in 1..Len(sc0) : o.sc[q][1] = sc0[q][1]

\* C7: after every Block, whether its body completes, fails with an error
\* or raises break or return, the scope has the length it had before the
\* block and the earlier bindings are at their positions under their names.
C7_BlockRestoresScope ==
  Ran =>
    \A k \in 1..Len(os_last) :
      Reached(k) =>
        \A b \in BlocksAt(Before(k - 1).sc, os_last[k]) : KeepsScope(b[1], b[2])

\* `let x = 1; { let y = 1; { let z = 2; break } y }` has run: the inner
\* block was entered with two bindings and raised break.
C7_Witness ==
  /\ Ran /\ Len(os_last) = 2 /\ Reached(2) /\ os_last[2][1] = "Block"
  /\ \E b \in BlocksAt(Before(1).sc, os_last[2]) :
       /\ Len(b[1]) = 2 /\ Len(b[2][2]) = 2 /\ b[2][2][2] = Break
       /\ rec_eval_stmt(Self, b[1], b[2]) = R(b[1], ErrLoopBreak)
  /\ result = ErrLoopBreak
  /\ last.op = "eval_with_scope" /\ my_scope = Before(1).sc /\ Len(my_scope) = 1

\* The position of the newest binding of x in sc (0 for none), found by
\* walking back from the end.
RECURSIVE Newest(_, _)
Newest(sc, x) ==
  IF Len(sc) = 0 THEN 0
  ELSE IF sc[Len(sc)][1] = x THEN Len(sc)
  ELSE Newest(SubSeq(sc, 1, Len(sc) - 1), x)

\* The block blk entered in sc0, where x is bound, starts with `let x = e`:
\* the let pushes one binding and leaves sc0 below it; a read of x then
\* yields the new value and `x = 0` then changes the new binding only; and
\* after the block the outer x is what it was.
Shadows(sc0, blk) ==
  LET x == blk[2][1][2]
      s1 == rec_eval_stmt(Self, sc0, blk[2][1])
      s2 == rec_eval_expr(Self, s1.sc, Assignment(Identifier(x), IntConst(0)))
      o == rec_eval_stmt(Self, sc0, blk)
  IN /\ IsOk(s1.r) =>
          /\ Len(s1.sc) = Len(sc0) + 1
          /\ SubSeq(s1.sc, 1, Len(sc0)) = sc0
          /\ s1.sc[Len(s1.sc)][1] = x
          /\ rec_eval_expr(Self, s1.sc, Identifier(x)).r = Ok(s1.sc[Len(s1.sc)][2])
          /\ s2.sc = Append(sc0, <<x, IntV(0)>>)
     /\ ~Unwinds(o.r) => o.sc[Newest(sc0, x)] = sc0[Newest(sc0, x)]

\* C8: a `let x` inside a block pushes a new binding and leaves the outer
\* binding of x alone; while the inner binding exists reads and assignments
\* of x act on it only; after the block the outer x has the value it had
\* (`let x = 1; if true { let x = 2; } x` yields 1).
C8_Shadowing ==
  Ran =>
    /\ \A k \in 1..Len(os_last) :
         Reached(k) =>
           \A b \in BlocksAt(Before(k - 1).sc, os_last[k]) :
             (/\ Len(b[2][2]) > 0 /\ b[2][2][1][1] = "Var"
              /\ Newest(b[1], b[2][2][1][2]) # 0) => Shadows(b[1], b[2])
    /\ (Evaluated /\ last.T = "i64" /\ StartScope = <<>>
        /\ os_last = <<Let("x", I(1)), If(True, Block(<<Let("x", I(2))>>)), SExpr(Id("x"))>>)
       => result = Ok(IntV(1))

\* `let x = 1; { let x = 2; x = 3; x } x` was evaluated and gave 1.
C8_Witness ==
  /\ Evaluated /\ last.T = "i64" /\ Len(os_last) = 3 /\ os_last[2][1] = "Block"
  /\ Before(1).sc = << <<"x", IntV(1)>> >>
  /\ os_last[2][2] = <<Let("x", I(2)), Set(Id("x"), I(3)), SExpr(Id("x"))>>
  /\ Before(2) = R(<< <<"x", IntV(1)>> >>, Ok(IntV(3)))
  /\ os_last[3] = SExpr(Id("x")) /\ result = Ok(IntV(1))

\* The names the engine prints for the types of args, joined by commas.
RECURSIVE JoinNames(_)
JoinNames(args) ==
  IF Len(args) = 0 THEN ""
  ELSE IF Len(args) = 1 THEN PrintedName(type_id(args[1]))
  ELSE PrintedName(type_id(args[1])) \o "," \o JoinNames(Tail(args))

\* The display names of the types of args, joined by commas.
RECURSIVE JoinDisplayNames(_)
JoinDisplayNames(args) ==
  IF Len(args) = 0 THEN ""
  ELSE IF Len(args) = 1 THEN DisplayName(type_id(args[1]))
  ELSE DisplayName(type_id(args[1])) \o "," \o JoinDisplayNames(Tail(args))

\* What a call of name with args yields: the entry registered for the exact
\* types if there is one, else the wildcard entry if there is one, else
\* ErrorFunctionNotFound.
Dispatch(name, args) ==
  IF FnSpec(name, Some(TypesOf(args))) \in DOMAIN fns
  THEN invoke(Self, fns[FnSpec(name, Some(TypesOf(args)))], args).r
  ELSE IF FnSpec(name, None) \in DOMAIN fns
  THEN invoke(Self, fns[FnSpec(name, None)], args).r
  ELSE Err("ErrorFunctionNotFound", name \o " (" \o JoinNames(args) \o ")")

\* C9: a call invokes the entry registered for (name, exact types of the
\* arguments) even when a wildcard entry for name exists too, else the
\* wildcard entry, else fails with ErrorFunctionNotFound naming the function
\* and the comma-joined display names of the argument types; call_fn and a
\* call in a script dispatch alike.
C9_DispatchOrder ==
  LET Claimed(name, args) ==
        IF FnSpec(name, Some(TypesOf(args))) \in DOMAIN fns
           \/ FnSpec(name, None) \in DOMAIN fns
        THEN Dispatch(name, args)
        ELSE Err("ErrorFunctionNotFound", name \o " (" \o JoinDisplayNames(args) \o ")")
  IN
  /\ last.op = "call_fn" =>
       result = IF ~IsOk(Claimed(last.ident, last.args)) THEN Claimed(last.ident, last.args)
                ELSE IF type_id(Claimed(last.ident, last.args).val) = last.T
                THEN Claimed(last.ident, last.args)
                ELSE Err("ErrorMismatchOutputType",
                         DisplayName(type_id(Claimed(last.ident, last.args).val)))
  /\ Ran =>
       \A k \in 1..Len(os_last) :
         (/\ Reached(k) /\ os_last[k][1] = "Expr" /\ os_last[k][2][1] = "FnCall"
          /\ IsOk(rec_eval_items(Self, Before(k - 1).sc, os_last[k][2][3]).r))
         => Before(k).r = Claimed(os_last[k][2][2],
                                  rec_eval_items(Self, Before(k - 1).sc,
                                                 os_last[k][2][3]).vals)

\* `nofn(new_ts())` was run on an engine that has neither an entry for nofn
\* nor a name for TestStruct: the call failed with ErrorFunctionNotFound, and
\* its text has the text of the box where the display name of the
\* argument's type belongs.
C9_Witness ==
  /\ Ran /\ os_last = <<SExpr(FnCall("nofn", <<Call0("new_ts")>>))>>
  /\ rec_eval_items(Self, Before(0).sc, os_last[1][2][3]).vals = <<TSV(1)>>
  /\ FnSpec("nofn", Some(<<"TS">>)) \notin DOMAIN fns
  /\ FnSpec("nofn", None) \notin DOMAIN fns
  /\ "TS" \notin DOMAIN type_names
  /\ JoinDisplayNames(<<TSV(1)>>) = "<unknown> TypeId(TS)"
  /\ result = Err("ErrorFunctionNotFound", "nofn (<unknown> TypeId(Box<Any>))")

\* C10: eval, eval_with_scope, consume and consume_with_scope never return
\* the control signals LoopBreak and Return to the host, whatever the
\* program, one with `break` or `return` at top level included.
C10_SignalsNeverReachHost ==
  last.op \in {"eval", "eval_with_scope", "consume", "consume_with_scope"} =>
    ~(result.k = "Err" /\ result.e \in {"LoopBreak", "Return"})

\* consume_with_scope of `let x = 8; return` handed Err(Return(())) to the
\* host and left x in its scope.
C10_Witness ==
  /\ last.op = "consume_with_scope" /\ last.input.ok
  /\ os_last = <<Let("x", I(8)), Return>>
  /\ result = ErrReturn(UnitV)
  /\ Len(my_scope) = Len(prev_scope) + 1

\* The program of a host call c is the single statement `x`, a variable read.
ReadsVar(c) ==
  /\ c.input.ok /\ Len(c.input.os) = 1
  /\ c.input.os[1][1] = "Expr" /\ c.input.os[1][2][1] = "Identifier"

\* What reading a value v as type T returns.
ReadAs(v, T) ==
  IF type_id(v) = T THEN Ok(v)
  ELSE Err("ErrorMismatchOutputType", PrintedName(type_id(v)))

\* One evaluation call of the host, as a step from the state the earlier
\* calls left: a *_with_scope call reads the caller's scope and leaves the
\* top-level lets it ran in it (a source with a function of more than
\* ArityCap parameters, whose statements consume does not run, is the case of
\* C16); eval and consume neither read nor change it.
SessionStep ==
  calls' = calls + 1 =>
    /\ (/\ last.op = "eval_with_scope" /\ last.input = Prog(<<Let("x", I(5))>>)
        /\ result \in {Ok(UnitV), Err("ErrorMismatchOutputType", PrintedName("unit"))}
        /\ last'.op = "eval_with_scope" /\ last'.T = "i64"
        /\ last'.input = Prog(<<SExpr(Bin("+", Id("x"), I(1)))>>))
       => result' = Ok(IntV(6))
    /\ (/\ last'.op = "eval_with_scope" /\ ReadsVar(last')
        /\ Newest(my_scope, last'.input.os[1][2][2]) # 0)
       => /\ result' = ReadAs(my_scope[Newest(my_scope, last'.input.os[1][2][2])][2],
                              last'.T)
          /\ my_scope' = my_scope
    /\ (/\ last'.op \in {"eval_with_scope", "consume_with_scope"} /\ last'.input.ok
        /\ \A i \in 1..Len(last'.input.fns) :
             Len(last'.input.fns[i].params) <= ArityCap
        /\ result'.k = "Ok" \/ (result'.k = "Err" /\ result'.e = "ErrorMismatchOutputType"))
       => /\ Len(my_scope') >= Len(my_scope)
          /\ \A k \in 1..Len(last'.input.os) :
               last'.input.os[k][1] = "Var" =>
                 /\ Newest(my_scope', last'.input.os[k][2]) # 0
                 /\ Newest(my_scope', last'.input.os[k][2]) > Len(my_scope)
    /\ last'.op \in {"eval", "consume"} =>
         /\ my_scope' = my_scope
         /\ (last'.op = "eval" /\ ReadsVar(last')) =>
              result' = Err("ErrorVariableNotFound", last'.input.os[1][2][2])

\* C11: a binding that a top-level `let` creates in one eval_with_scope /
\* consume_with_scope call is visible with its current value in every later
\* call given the same scope (`let x = 5;` then `x + 1` yields 6); eval and
\* consume start each call from an empty scope, so no variable survives.
C11_StatefulSessions == [][SessionStep]_vars

\* After `let x = 5;` in an earlier call, `x + 1` gave 6 in a later one.
C11_Witness ==
  /\ calls = 2 /\ last.op = "eval_with_scope" /\ last.T = "i64"
  /\ os_last = <<SExpr(Bin("+", Id("x"), I(1)))>>
  /\ prev_scope = << <<"x", IntV(5)>> >>
  /\ my_scope = prev_scope /\ result = Ok(IntV(6))

\* The function definitions of a source, none of more than ArityCap parameters.
DefinesWithinCap(c) ==
  /\ c.op \in {"eval", "eval_with_scope", "consume", "consume_with_scope"}
  /\ c.input.ok
  /\ \A i \in 1..Len(c.input.fns) : Len(c.input.fns[i].params) <= ArityCap

\* The last definition of the name of the i-th definition of a source.
LastDefOf(fs, i) ==
  fs[CHOOSE j \in i..Len(fs) :
       /\ fs[j].name = fs[i].name
       /\ \A k \in (j + 1)..Len(fs) : fs[k].name # fs[i].name]

\* One step of the host on an engine: no key leaves the registry, the
\* definitions of an evaluated source are in the registry after the call
\* whatever its statements returned, and a script function that an earlier
\* source defined is what a later `f(5)` calls.
RegistryStep ==
  /\ DOMAIN fns \subseteq DOMAIN fns'
  /\ (calls' = calls + 1 /\ DefinesWithinCap(last')) =>
       \A i \in 1..Len(last'.input.fns) :
         /\ FnSpec(last'.input.fns[i].name, None) \in DOMAIN fns'
         /\ fns'[FnSpec(last'.input.fns[i].name, None)]
              = FnInt(LastDefOf(last'.input.fns, i))
  /\ (/\ calls' = calls + 1 /\ last'.op = "eval_with_scope"
      /\ last'.input = Prog(<<SExpr(FnCall("f", <<I(5)>>))>>)
      /\ FnSpec("f", None) \in DOMAIN fns
      /\ fns[FnSpec("f", None)].kind = "Int")
     => LET r == call_script(Self, fns[FnSpec("f", None)].def, <<IntV(5)>>).r
        IN result' = IF IsOk(r) THEN ReadAs(r.val, last'.T) ELSE r

\* C12: the registry only accumulates: over register_fn, register_get,
\* register_set, eval and consume calls on one engine a key once present is
\* never removed, and a script function defined in one evaluated source stays
\* callable from every later evaluation, also when the statements of the
\* defining source failed.
C12_RegistryAccumulates == [][RegistryStep]_vars

\* `fn f(x) { -x } f(true)` failed, and f is in the registry.
C12_Witness ==
  /\ calls = 1 /\ last.op = "eval_with_scope" /\ last.input.ok
  /\ Len(last.input.fns) = 1 /\ last.input.fns[1].name = "f"
  /\ result.k = "Err" /\ result.e = "ErrorFunctionNotFound"
  /\ FnSpec("f", None) \in DOMAIN fns
  /\ fns[FnSpec("f", None)] = FnInt(last.input.fns[1])
  /\ DOMAIN DefaultFns \subseteq DOMAIN fns

\* A later `f(5)` called the function an earlier source defined.
C12_WitnessLater ==
  /\ calls = 2 /\ last.op = "eval_with_scope"
  /\ os_last = <<SExpr(FnCall("f", <<I(5)>>))>> /\ last.input.fns = <<>>
  /\ result = Ok(IntV(-5))

\* C13: on a new engine the default operators on the built-in types give the
\* arithmetic results: `1 + 2 == 3`, `"a" + "b" == "ab"`, `!(true) == false`,
\* `-(-5) == 5`, `5 % 3 == 2`, `2 ~ 10 == 1024`, `let x = -5; x` is -5 and
\* `5 - -(-5)` is 0; for i64 operands within range binary -, unary - and +
\* agree with integer arithmetic.
C13_DefaultOperators ==
  \A c \in ArithCases :
    (last.op = "eval" /\ last.input = c[1] /\ last.T = type_id(c[2]))
      => result = Ok(c[2])

\* `5 - -(-5)` was evaluated on an engine no host function was added to.
C13_Witness ==
  /\ calls = 1 /\ nreg = 0 /\ fns = DefaultFns /\ last.op = "eval"
  /\ os_last = <<SExpr(Bin("-", I(5), Neg(Neg(I(5)))))>>
  /\ result = Ok(IntV(0))

\* The scope after j rounds of While(g, b) begun in sc: g evaluated, then b.
RECURSIVE Rounds(_, _, _, _)
Rounds(sc, g, b, j) ==
  IF j = 0 THEN sc
  ELSE rec_eval_stmt(Self, rec_eval_expr(Self, Rounds(sc, g, b, j - 1), g).sc, b).sc

\* In the scope reached after j rounds the guard is the boolean v.
GuardIs(sc, g, b, j, v) ==
  guard_of(rec_eval_expr(Self, Rounds(sc, g, b, j), g)) = Ok(BoolV(v))

\* Round j + 1 runs: the guard is true after j rounds and the body ends normally.
RoundRuns(sc, g, b, j) ==
  /\ GuardIs(sc, g, b, j, TRUE)
  /\ IsOk(rec_eval_stmt(Self, rec_eval_expr(Self, Rounds(sc, g, b, j), g).sc, b).r)

\* The top-level While statements the last call reached.
WhileAt(k) ==
  /\ Ran /\ k \in 1..Len(os_last) /\ os_last[k][1] = "While"
  /\ IsOk(Before(k - 1).r)

\* C14: While(g, b) evaluates g before every iteration, runs b once for each
\* time g is true and ends with Unit as soon as g is false; so
\* `let i = 0; while i < n { i = i + 1; } i` ends with i = n for every n >= 0.
C14_WhileCounts ==
  /\ \A k \in 1..Len(os_last), m \in 0..MaxIter :
       (/\ WhileAt(k)
        /\ \A j \in 0..(m - 1) : RoundRuns(Before(k - 1).sc, os_last[k][2], os_last[k][3], j)
        /\ GuardIs(Before(k - 1).sc, os_last[k][2], os_last[k][3], m, FALSE))
       => Before(k)
            = R(rec_eval_expr(Self, Rounds(Before(k - 1).sc, os_last[k][2], os_last[k][3], m),
                              os_last[k][2]).sc,
                Ok(UnitV))
  /\ \A n \in 0..3 :
       (last.op = "eval_with_scope" /\ last.input = CountTo(n) /\ last.T = "i64")
         => /\ result = Ok(IntV(n))
            /\ my_scope = Append(prev_scope, <<"i", IntV(n)>>)

\* `let i = 0; while i < 3 { i = i + 1; } i` returned 3.
C14_Witness ==
  /\ last.op = "eval_with_scope" /\ last.input = CountTo(3) /\ last.T = "i64"
  /\ WhileAt(2)
  /\ \A j \in 0..2 : RoundRuns(Before(1).sc, os_last[2][2], os_last[2][3], j)
  /\ GuardIs(Before(1).sc, os_last[2][2], os_last[2][3], 3, FALSE)
  /\ result = Ok(IntV(3))

\* A call of the host with a source that does not parse.
ParseFails(c) ==
  /\ c.op \in {"eval", "eval_with_scope", "consume", "consume_with_scope"}
  /\ ~c.input.ok

\* C15: when the source fails to parse, eval_with_scope and
\* consume_with_scope return ErrorFunctionArgMismatch and have no effect: no
\* function is registered, no statement runs, the caller's scope is unchanged.
C15_ParseFailureHasNoEffect ==
  [][(calls' = calls + 1 /\ ParseFails(last')) =>
       /\ result' = Err("ErrorFunctionArgMismatch", "")
       /\ fns' = fns
       /\ type_names' = type_names
       /\ my_scope' = my_scope]_vars

\* consume_with_scope of a source that does not parse, on a scope an earlier
\* call left a variable in and on an engine with the host's functions.
C15_Witness ==
  /\ calls = 2 /\ last.op = "consume_with_scope" /\ ~last.input.ok
  /\ result = Err("ErrorFunctionArgMismatch", "")
  /\ my_scope # <<>> /\ my_scope = prev_scope
  /\ nreg = Len(HostSetup) /\ fns # DefaultFns

\* The source of a call has a function of more than ArityCap parameters.
OverCap(c) ==
  /\ c.op \in {"eval", "eval_with_scope", "consume", "consume_with_scope"}
  /\ c.input.ok
  /\ \E i \in 1..Len(c.input.fns) : Len(c.input.fns[i].params) > ArityCap

\* What running all the statements of call c leaves, begun in scope sc on
\* the engine as the call left it.
AllStatements(c, sc) ==
  rec_top_loop(Engine(fns', type_names', MaxDepth),
               IF c.op \in {"eval", "consume"} THEN <<>> ELSE sc, c.input.os, Ok(UnitV))

\* C16: arity cap: when a parsed source has a script function of more than 6
\* parameters, registration from that source (in consume / consume_with_scope
\* and in eval / eval_with_scope) skips that definition only: it is not added
\* to the registry, every other definition of the source is registered, and
\* all top-level statements of the source are still executed.
C16_ArityCapSkipsOnlyThat ==
  [][(calls' = calls + 1 /\ OverCap(last')) =>
       /\ \A i \in 1..Len(last'.input.fns) :
            LET f == last'.input.fns[i]
            IN IF Len(f.params) > ArityCap
               THEN FnSpec(f.name, None) \in DOMAIN fns' <=> FnSpec(f.name, None) \in DOMAIN fns
               ELSE /\ FnSpec(f.name, None) \in DOMAIN fns'
                    /\ fns'[FnSpec(f.name, None)] = FnInt(f)
       /\ last'.op \in {"eval_with_scope", "consume_with_scope"}
            => my_scope' = AllStatements(last', my_scope).sc
       /\ IsOk(result') = IsOk(AllStatements(last', my_scope).r)
       /\ last'.op \in {"eval", "eval_with_scope"}
            => result' = ReadAs(AllStatements(last', my_scope).r.val, last'.T)]_vars

\* consume_with_scope of a source whose second function has 7 parameters
\* returned Ok with no statement run and the third function not registered.
C16_Witness ==
  /\ calls = 1 /\ last.op = "consume_with_scope"
  /\ last.input = CapProgram(ArityCap + 1)
  /\ result = Ok(UnitV) /\ my_scope = <<>>
  /\ FnSpec("g", None) \in DOMAIN fns
  /\ FnSpec("big", None) \notin DOMAIN fns
  /\ FnSpec("h", None) \notin DOMAIN fns

\* eval_with_scope of the same source registered the function of 7 parameters.
C16_WitnessEval ==
  /\ calls = 1 /\ last.op = "eval_with_scope"
  /\ last.input = CapProgram(ArityCap + 1)
  /\ result = Ok(IntV(6)) /\ my_scope = << <<"z", IntV(1)>> >>
  /\ FnSpec("big", None) \in DOMAIN fns

\* The expression a top-level statement changes a variable through: the
\* left side of an assignment, or a dot expression (a method call).
TargetOf(st) ==
  IF st[1] = "Expr" /\ st[2][1] = "Assignment" THEN st[2][2]
  ELSE IF st[1] = "Expr" /\ st[2][1] = "Dot" THEN st[2]
  ELSE <<"none">>

\* The variable that expression starts from.
RootVar(st) ==
  LET t == TargetOf(st)
      b == IF t[1] = "Dot" THEN t[2] ELSE t
  IN IF b[1] \in {"Identifier", "Index"} THEN b[2] ELSE ""

\* Statement k of the last call changes something through a bound variable
\* (the right side of an assignment changing nothing by itself).
ChangesThrough(k) ==
  /\ Ran /\ k \in 1..Len(os_last) /\ IsOk(Before(k - 1).r)
  /\ RootVar(os_last[k]) # ""
  /\ Newest(Before(k - 1).sc, RootVar(os_last[k])) # 0
  /\ os_last[k][2][1] = "Assignment" =>
       rec_eval_expr(Self, Before(k - 1).sc, os_last[k][2][3]).sc = Before(k - 1).sc

\* C17: no aliasing between bindings: every read of an identifier or of an
\* array slot yields an independent copy, so after `let b = a;` (or
\* `let b = a[i];`) a change made through b (assignment, index assignment,
\* dot set or mutating method) leaves the value bound to a unchanged, and
\* vice versa.
C17_NoAliasing ==
  /\ \A k \in 1..Len(os_last) :
       ChangesThrough(k) =>
         LET s0 == Before(k - 1).sc
             s1 == Before(k).sc
         IN /\ Len(s1) = Len(s0)
            /\ \A q \in 1..Len(s0) :
                 q # Newest(s0, RootVar(os_last[k])) => s1[q] = s0[q]
  /\ \A c \in AliasCases :
       (last.op = "eval_with_scope" /\ last.input = c[1] /\ IsOk(Before(2).r))
         => result = Ok(c[2])

\* After `let a = new_ts(); let b = a;` the two bindings held equal values,
\* `b.update()` changed b, and a is as it was.
C17_Witness ==
  /\ last.op = "eval_with_scope" /\ calls = 1
  /\ last.input = Prog(<<Let("a", Call0("new_ts")), Let("b", Id("a")),
                         SExpr(Dot(Id("b"), Call0("update"))),
                         SExpr(Dot(Id("a"), Id("x")))>>)
  /\ ChangesThrough(3)
  /\ Before(2).sc = << <<"a", TSV(1)>>, <<"b", TSV(1)>> >>
  /\ Before(3).sc = << <<"a", TSV(1)>>, <<"b", TSV(1001)>> >>
  /\ result = Ok(IntV(1))

\* Statement k of the last call is the read `id[e]`, and it was reached.
IndexRead(k) ==
  /\ Ran /\ k \in 1..Len(os_last) /\ IsOk(Before(k - 1).r)
  /\ os_last[k][1] = "Expr" /\ os_last[k][2][1] = "Index"

\* C18: Index(id, e) as a read: e is evaluated first; if its value is not an
\* i64, or the innermost binding of id is not an array, the result is
\* ErrorIndexMismatch; otherwise the result is a copy of element e of that
\* array (`let x = [1, 2, 3]; x[1]` yields 2) and the scope is left
\* unchanged.  (An index outside the array is the case of C3.)
C18_IndexRead ==
  \A k \in 1..Len(os_last) :
    IndexRead(k) =>
      LET s0 == Before(k - 1).sc
          id == os_last[k][2][2]
          e == rec_eval_expr(Self, s0, os_last[k][2][3])
          p == Newest(e.sc, id)
      IN /\ ~IsOk(e.r) => Before(k).r = e.r
         /\ (IsOk(e.r) /\ type_id(e.r.val) # "i64")
              => Before(k).r = Err("ErrorIndexMismatch", "")
         /\ (IsOk(e.r) /\ type_id(e.r.val) = "i64" /\ p # 0
             /\ type_id(e.sc[p][2]) # "array")
              => Before(k).r = Err("ErrorIndexMismatch", "")
         /\ (IsOk(e.r) /\ type_id(e.r.val) = "i64" /\ p # 0
             /\ type_id(e.sc[p][2]) = "array" /\ InBounds(e.sc[p][2].v, e.r.val.v))
              => /\ Before(k).r = Ok(e.sc[p][2].v[e.r.val.v + 1])
                 /\ Before(k).sc = s0

\* `let x = [1, 2, 3]; x[1]` gave 2 and left x as it was.
C18_Witness ==
  /\ last.op = "eval_with_scope" /\ last.T = "i64"
  /\ last.input = Prog(<<Let("x", Arr3), SExpr(Index("x", I(1)))>>)
  /\ IndexRead(2)
  /\ result = Ok(IntV(2))
  /\ my_scope = Append(prev_scope, <<"x", ArrV(<<IntV(1), IntV(2), IntV(3)>>)>>)

\* `zz[true]`: the index is not an integer, and ErrorIndexMismatch is the
\* result though zz is not bound.
C18_WitnessMismatch ==
  /\ last.op = "eval_with_scope" /\ calls = 1
  /\ last.input = Prog(<<SExpr(Index("zz", True))>>)
  /\ IndexRead(1) /\ result = Err("ErrorIndexMismatch", "")

\* C19: return is caught only at the script-function-call boundary: a
\* `return v` executed anywhere in a script function body (in nested blocks,
\* if branches, while and loop statements) ends the whole call with result v,
\* no later statement of the body runs, enclosing loops do not catch it, and
\* the caller continues normally with v as the value of the call.
C19_ReturnEndsTheCall ==
  \A c \in ReturnCases :
    (last.op = "eval_with_scope" /\ last.input = ReturnProgram(c[1])
     /\ last.T = type_id(c[2]))
      => /\ rec_eval_stmt(Self, << <<"x", IntV(5)>> >>, Block(c[1])).r = ErrReturn(c[2])
         /\ call_script(Self, last.input.fns[1], <<IntV(5)>>).r = Ok(c[2])
         /\ Before(1) = R(Append(prev_scope, <<"r", c[2]>>), Ok(UnitV))
         /\ result = Ok(c[2])
         /\ my_scope = Append(prev_scope, <<"r", c[2]>>)

\* A return inside an if inside a loop inside a while ended the call of f
\* with x + 1, and the caller bound r to it.
C19_Witness ==
  /\ calls = 1 /\ last.op = "eval_with_scope" /\ last.T = "i64"
  /\ last.input
       = ReturnProgram(
           <<While(True,
                   Block(<<Loop(Block(<<If(True,
                                          Block(<<ReturnWithVal(Bin("+", Id("x"), I(1)))>>)),
                                       Break>>)),
                           SExpr(I(97))>>)),
             SExpr(I(99))>>)
  /\ result = Ok(IntV(6)) /\ my_scope = << <<"r", IntV(6)>> >>

\* Statement k of the last call is a call of a script function whose
\* arguments evaluate and whose body ends without `return` and without error.
EndsWithoutReturn(k) ==
  /\ Ran /\ k \in 1..Len(os_last) /\ Reached(k) /\ IsScriptCall(os_last[k])
  /\ IsOk(rec_eval_items(Self, Before(k - 1).sc, os_last[k][2][3]).r)
  /\ FnSpec(os_last[k][2][2],
            Some(TypesOf(rec_eval_items(Self, Before(k - 1).sc, os_last[k][2][3]).vals)))
       \notin DOMAIN fns
  /\ IsOk(BodyWithArgs(Before(k - 1).sc, os_last[k]).r)

\* The scope a call binds: each parameter with the value of its argument.
ParamScope(sc, s) ==
  LET f == fns[FnSpec(s[2][2], None)].def
      a == rec_eval_items(Self, sc, s[2][3])
  IN [i \in 1..Len(f.params) |-> <<f.params[i], a.vals[i]>>]

\* What the last statement of the body of the function called by s yields,
\* after the statements before it, begun in the scope of the parameters.
LastOfBody(sc, s) ==
  LET ss == fns[FnSpec(s[2][2], None)].def.body[2]
      inner == [Self EXCEPT !.d = @ - 1]
      pre == rec_top_loop(inner, ParamScope(sc, s), SubSeq(ss, 1, Len(ss) - 1), Ok(UnitV))
  IN IF Len(ss) = 0 THEN Ok(UnitV) ELSE rec_eval_stmt(inner, pre.sc, ss[Len(ss)]).r

\* C20 as stated: a script function call whose body finishes without
\* executing `return` yields Unit.
C20_EndOfBodyYieldsUnit ==
  \A k \in 1..Len(os_last) :
    EndsWithoutReturn(k) => Before(k).r = Ok(UnitV)

\* C20, amended: a script function call binds each parameter to a copy of
\* the corresponding argument in a fresh scope, and when the body finishes
\* without executing `return` the call yields the value of the last statement
\* of the body: Unit when the body is empty or its last statement yields Unit
\* (a `let`, an assignment), the value of the expression otherwise.  The
\* caller's scope is as the evaluation of the arguments left it: the body
\* sees none of the caller's variables and changes none.
C20_EndOfBodyYieldsLast ==
  /\ \A k \in 1..Len(os_last) :
       EndsWithoutReturn(k) =>
         /\ Before(k).r = LastOfBody(Before(k - 1).sc, os_last[k])
         /\ Before(k).sc = rec_eval_items(Self, Before(k - 1).sc, os_last[k][2][3]).sc
         /\ os_last[k][2][3][1][1] = "Identifier"
              => LET p == Newest(Before(k - 1).sc, os_last[k][2][3][1][2])
                 IN ParamScope(Before(k - 1).sc, os_last[k])[1][2] = Before(k - 1).sc[p][2]
  /\ \A c \in CallCases :
       (last.op = "eval_with_scope" /\ last.input = c[1] /\ last.T = "i64")
         => result = c[2]

\* `fn f(x) { x[0] = 9; x[0] } let a = [1, 2, 3]; f(a)` yielded 9, the value
\* of the last statement of the body, and a is as it was.
C20_Witness ==
  /\ calls = 1 /\ last.op = "eval_with_scope" /\ last.T = "i64"
  /\ last.input
       = Parsed(<<Let("a", Arr3), SExpr(FnCall("f", <<Id("a")>>))>>,
                <<FnDef("f", <<"x">>,
                        Block(<<Set(Index("x", I(0)), I(9)), SExpr(Index("x", I(0)))>>))>>)
  /\ EndsWithoutReturn(2)
  /\ result = Ok(IntV(9))
  /\ my_scope = << <<"a", ArrV(<<IntV(1), IntV(2), IntV(3)>>)>> >>

\* `fn f(x) { x = 9; } let a = 1; f(a)`: the body ended in an assignment and
\* the call yielded Unit.
C20_WitnessUnit ==
  /\ calls = 1 /\ last.op = "eval_with_scope" /\ Len(os_last) = 3
  /\ EndsWithoutReturn(2) /\ Before(2).r = Ok(UnitV)
  /\ my_scope = << <<"a", IntV(1)>> >>

\* The scenarios of one tag, and the type the host asks for: that of the
\* value expected, i64 when an error is.
ScenariosOf(tag) == {c \in Scenarios : c[1] = tag}
AskedType(r) == IF IsOk(r) THEN type_id(r.val) ELSE "i64"

\* The last call evaluated scenario c in an empty scope.
RanScenario(c) ==
  /\ last.op = "eval_with_scope" /\ last.input = c[2] /\ last.T = AskedType(c[3])
  /\ prev_scope = <<>>

\* C21: LoopBreak is caught by the nearest enclosing loop: a `break` inside
\* nested While/Loop statements ends only the innermost loop that contains
\* it, that loop evaluates to Unit, the scope is restored to the length it
\* had at the start of the broken iteration's block, and the outer loop
\* continues with its next statement or iteration.
C21_BreakEndsInnermostLoop ==
  /\ \A c \in ScenariosOf("break") :
       RanScenario(c) => result = c[3] /\ my_scope = c[4]
  /\ \A k \in 1..Len(os_last) :
       (Ran /\ Reached(k) /\ os_last[k][1] \in {"While", "Loop"})
         => /\ Before(k).r # ErrLoopBreak
            /\ IsOk(Before(k).r) => Before(k).r = Ok(UnitV)
            /\ ~Unwinds(Before(k).r) => Len(Before(k).sc) = Len(Before(k - 1).sc)
  /\ rec_eval_stmt(Self, << <<"n", IntV(0)>>, <<"i", IntV(1)>> >>,
                   Loop(Block(<<Let("t", I(1)), Inc("n", 1), Break, Inc("n", 100)>>)))
       = R(<< <<"n", IntV(1)>>, <<"i", IntV(1)>> >>, Ok(UnitV))

\* The loop inside the while was broken in each of the two iterations of the
\* while, which went on after it: n is 1 + 10 + 1 + 10.
C21_Witness ==
  /\ calls = 1 /\ last.op = "eval_with_scope" /\ last.input.ok
  /\ Len(os_last) = 4 /\ os_last[3][1] = "While"
  /\ os_last[3][3][2][2][1] = "Loop"
  /\ result = Ok(IntV(22))
  /\ my_scope = << <<"n", IntV(22)>>, <<"i", IntV(2)>> >>

\* The registry keys the function definitions fs are stored under.
KeysOf(fs) == {FnSpec(fs[i].name, None) : i \in 1..Len(fs)}

\* One evaluation of a source (none of whose functions exceeds ArityCap) as
\* a step: the registry after the call is the registry before it with the
\* definitions of the source added, and the statements ran, from the first
\* one on, on an engine with that registry.
DefinitionsFirst ==
  (calls' = calls + 1 /\ DefinesWithinCap(last')) =>
    LET fs == last'.input.fns
        run == rec_top_loop(Engine(fns', type_names', MaxDepth),
                            IF last'.op \in {"eval", "consume"} THEN <<>> ELSE my_scope,
                            last'.input.os, Ok(UnitV))
    IN /\ DOMAIN fns' = DOMAIN fns \cup KeysOf(fs)
       /\ \A key \in DOMAIN fns \ KeysOf(fs) : fns'[key] = fns[key]
       /\ \A i \in 1..Len(fs) : fns'[FnSpec(fs[i].name, None)] = FnInt(LastDefOf(fs, i))
       /\ last'.op \in {"eval_with_scope", "consume_with_scope"} => my_scope' = run.sc
       /\ ~IsOk(run.r) => result' = run.r
       /\ IsOk(run.r) =>
            result' = IF last'.op \in {"eval", "eval_with_scope"}
                      THEN ReadAs(run.r.val, last'.T) ELSE Ok(UnitV)

\* C22: in one evaluation all script function definitions of the source are
\* inserted into the registry before its first top-level statement executes
\* (so a statement can call a function the same source defines), and the
\* registry is not modified while the statements execute.
C22_DefinitionsBeforeStatements == [][DefinitionsFirst]_vars

\* `fn n(x) { -x } n(5)` on an engine that did not have n: the first
\* statement called n.
C22_Witness ==
  /\ calls = 1 /\ last.op = "eval_with_scope" /\ last.T = "i64"
  /\ last.input = Parsed(<<SExpr(FnCall("n", <<I(5)>>))>>,
                         <<FnDef("n", <<"x">>, Block(<<SExpr(Neg(Id("x")))>>))>>)
  /\ FnSpec("n", None) \notin DOMAIN DefaultFns
  /\ FnSpec("n", None) \in DOMAIN fns
  /\ result = Ok(IntV(-5))

\* A call of name with args finds no entry for the exact types, and the
\* wildcard entry of name is a native function.
NativeWildcardOnly(name, args) ==
  /\ FnSpec(name, Some(TypesOf(args))) \notin DOMAIN fns
  /\ FnSpec(name, None) \in DOMAIN fns
  /\ fns[FnSpec(name, None)].kind = "Ext"

\* C23: the wildcard fallback of dispatch invokes the entry stored under
\* (name, None) only if it is a script callable; a native callable stored
\* under the wildcard signature (registered through register_fn_raw with
\* args = None) is not invoked and the call fails with ErrorFunctionNotFound.
C23_WildcardOnlyScript ==
  /\ (last.op = "call_fn" /\ NativeWildcardOnly(last.ident, last.args))
       => result = Err("ErrorFunctionNotFound",
                       last.ident \o " (" \o JoinNames(last.args) \o ")")
  /\ Ran =>
       \A k \in 1..Len(os_last) :
         (/\ Reached(k) /\ os_last[k][1] = "Expr" /\ os_last[k][2][1] = "FnCall"
          /\ IsOk(rec_eval_items(Self, Before(k - 1).sc, os_last[k][2][3]).r)
          /\ NativeWildcardOnly(os_last[k][2][2],
                                rec_eval_items(Self, Before(k - 1).sc,
                                               os_last[k][2][3]).vals))
         => Before(k).r
              = Err("ErrorFunctionNotFound",
                    os_last[k][2][2] \o " (" \o
                      JoinNames(rec_eval_items(Self, Before(k - 1).sc,
                                               os_last[k][2][3]).vals) \o ")")

\* `count(1, 2)`, with count registered by register_fn_raw under the
\* wildcard signature only: the native closure was invoked and gave 2.
C23_Witness ==
  /\ calls = 1 /\ last.op = "eval_with_scope" /\ last.T = "i64"
  /\ last.input = Prog(<<SExpr(FnCall("count", <<I(1), I(2)>>))>>)
  /\ NativeWildcardOnly("count", <<IntV(1), IntV(2)>>)
  /\ result = Ok(IntV(2))

\* Statement k of the last call is `n = rhs`, and it was reached.
AssignsVar(k) ==
  /\ Ran /\ Reached(k)
  /\ os_last[k][1] = "Expr" /\ os_last[k][2][1] = "Assignment"
  /\ os_last[k][2][2][1] = "Identifier"

\* C24: Assignment(Identifier n, rhs) evaluates rhs first, then overwrites
\* only the innermost binding named n with that value and yields Unit; when n
\* is unbound it yields ErrorVariableNotFound(n), raised after rhs has been
\* evaluated (side effects of rhs stay) and without changing the length of
\* the scope.
C24_AssignToVariable ==
  /\ \A k \in 1..Len(os_last) :
       AssignsVar(k) =>
         LET s0 == Before(k - 1).sc
             n == os_last[k][2][2][2]
             e == rec_eval_expr(Self, s0, os_last[k][2][3])
             p == Newest(e.sc, n)
         IN /\ Len(Before(k).sc) = Len(s0)
            /\ ~IsOk(e.r) => Before(k) = R(e.sc, e.r)
            /\ (IsOk(e.r) /\ p = 0)
                 => Before(k) = R(e.sc, Err("ErrorVariableNotFound", n))
            /\ (IsOk(e.r) /\ p # 0)
                 => /\ Before(k).r = Ok(UnitV)
                    /\ Before(k).sc[p] = <<n, e.r.val>>
                    /\ \A q \in 1..Len(s0) : q # p => Before(k).sc[q] = e.sc[q]
  /\ \A c \in ScenariosOf("assign") :
       (RanScenario(c) /\ nreg = Len(HostSetup)) => result = c[3] /\ my_scope = c[4]

\* `let o = new_ts(); zz = o.update();`: zz is not bound, and o was updated
\* by the right side before the assignment failed.
C24_Witness ==
  /\ calls = 1 /\ last.op = "eval_with_scope"
  /\ last.input = Prog(<<Let("o", Call0("new_ts")),
                         Set(Id("zz"), Dot(Id("o"), Call0("update")))>>)
  /\ AssignsVar(2)
  /\ result = Err("ErrorVariableNotFound", "zz")
  /\ my_scope = << <<"o", TSV(1001)>> >>

\* Statement k of the last call is `n[e] = rhs`, it was reached, and rhs and
\* e evaluate.
AssignsSlot(k) ==
  /\ Ran /\ Reached(k)
  /\ os_last[k][1] = "Expr" /\ os_last[k][2][1] = "Assignment"
  /\ os_last[k][2][2][1] = "Index"
  /\ IsOk(rec_eval_expr(Self, Before(k - 1).sc, os_last[k][2][3]).r)
  /\ IsOk(rec_eval_expr(Self, Before(k - 1).sc, os_last[k][2][2][3]).r)

\* C25: Assignment(Index(n, e), rhs) checks in the order: evaluate e as an
\* i64, find the binding of n, ensure it is an array.  So a non-integer index
\* yields ErrorIndexMismatch even when n is unbound, an integer index with n
\* unbound yields ErrorVariableNotFound(n), and a bound n that is not an array
\* yields ErrorIndexMismatch, as for the index read.
C25_IndexAssignChecks ==
  \A k \in 1..Len(os_last) :
    AssignsSlot(k) =>
      LET s0 == Before(k - 1).sc
          n == os_last[k][2][2][2]
          i == rec_eval_expr(Self, s0, os_last[k][2][2][3]).r.val
          p == Newest(s0, n)
      IN /\ type_id(i) # "i64" => Before(k).r = Err("ErrorIndexMismatch", "")
         /\ (type_id(i) = "i64" /\ p = 0)
              => Before(k).r = Err("ErrorVariableNotFound", n)
         /\ (type_id(i) = "i64" /\ p # 0 /\ type_id(s0[p][2]) # "array")
              => Before(k).r = Err("ErrorIndexMismatch", "")

\* `zz[true] = 1` with zz unbound gave ErrorVariableNotFound(zz).
C25_Witness ==
  /\ calls = 1 /\ last.op = "eval_with_scope"
  /\ last.input = Prog(<<Set(Index("zz", True), I(1))>>)
  /\ AssignsSlot(1)
  /\ result = Err("ErrorVariableNotFound", "zz")

\* Statement k of the last call is `a.p.q = rhs` with a bound and rhs
\* evaluating, and it was reached.
NestedSet(k) ==
  /\ Ran /\ Reached(k)
  /\ os_last[k][1] = "Expr" /\ os_last[k][2][1] = "Assignment"
  /\ os_last[k][2][2][1] = "Dot" /\ os_last[k][2][2][2][1] = "Identifier"
  /\ os_last[k][2][2][3][1] = "Dot"
  /\ os_last[k][2][2][3][2][1] = "Identifier" /\ os_last[k][2][2][3][3][1] = "Identifier"
  /\ IsOk(rec_eval_expr(Self, Before(k - 1).sc, os_last[k][2][3]).r)
  /\ Newest(Before(k - 1).sc, os_last[k][2][2][2][2]) # 0

\* C26: nested set `a.p.q = v`: get$p is called on a scratch copy of a to
\* obtain u, the inner set is applied to u, then set$p(scratch, u) is called
\* and the scratch stored into a's binding, so that a later `a.p.q` yields v;
\* if the inner set fails, set$p is not called and the error is returned.
C26_NestedSet ==
  /\ \A k \in 1..Len(os_last) :
       NestedSet(k) =>
         LET s0 == Before(k - 1).sc
             lhs == os_last[k][2][2]
             pos == Newest(s0, lhs[2][2])
             pn == lhs[3][2][2]
             qn == lhs[3][3][2]
             v == rec_eval_expr(Self, s0, os_last[k][2][3]).r.val
             g == rec_call_fn_raw(Self, "get$" \o pn, <<s0[pos][2]>>)
             inner == rec_call_fn_raw(Self, "set$" \o qn, <<g.r.val, v>>)
             back == rec_call_fn_raw(Self, "set$" \o pn, <<g.args[1], inner.args[1]>>)
             kept == [s0 EXCEPT ![pos] = <<lhs[2][2], g.args[1]>>]
         IN /\ ~IsOk(g.r) => Before(k) = R(kept, g.r)
            /\ (IsOk(g.r) /\ ~IsOk(inner.r)) => Before(k) = R(kept, inner.r)
            /\ (IsOk(g.r) /\ IsOk(inner.r))
                 => /\ Before(k).r = back.r
                    /\ Before(k).sc = [s0 EXCEPT ![pos] = <<lhs[2][2], back.args[1]>>]
                    /\ IsOk(back.r)
                         => rec_eval_expr(Self, Before(k).sc, lhs).r = Ok(v)
  /\ \A c \in ScenariosOf("nested_set") :
       (RanScenario(c) /\ nreg = Len(HostSetup)) => result = c[3] /\ my_scope = c[4]

\* `let o = new_holder(); o.ts.x = 5; o.ts.x` gave 5.
C26_Witness ==
  /\ calls = 1 /\ last.op = "eval_with_scope" /\ last.T = "i64"
  /\ last.input = Prog(<<Let("o", Call0("new_holder")),
                         Set(Dot(Id("o"), Dot(Id("ts"), Id("x"))), I(5)),
                         SExpr(Dot(Id("o"), Dot(Id("ts"), Id("x"))))>>)
  /\ NestedSet(2)
  /\ Before(1).sc = << <<"o", HolderV(<<IntV(1), IntV(2)>>, TSV(1))>> >>
  /\ my_scope = << <<"o", HolderV(<<IntV(1), IntV(2)>>, TSV(5))>> >>
  /\ result = Ok(IntV(5))

\* `o.ts.nope = 5`: the inner set failed, and o is as it was.
C26_WitnessInnerFails ==
  /\ calls = 1 /\ last.op = "eval_with_scope"
  /\ last.input = Prog(<<Let("o", Call0("new_holder")),
                         Set(Dot(Id("o"), Dot(Id("ts"), Id("nope"))), I(5))>>)
  /\ NestedSet(2)
  /\ result.k = "Err" /\ result.e = "ErrorFunctionNotFound"
  /\ my_scope = << <<"o", HolderV(<<IntV(1), IntV(2)>>, TSV(1))>> >>

\* The expressions es evaluated one after the other from the first on, each
\* in the scope the one before left, up to the first that fails.
RECURSIVE InOrder(_, _, _)
InOrder(sc, es, vals) ==
  IF Len(es) = 0 THEN [sc |-> sc, r |-> Ok(UnitV), vals |-> vals]
  ELSE LET h == rec_eval_expr(Self, sc, Head(es))
       IN IF ~IsOk(h.r) THEN [sc |-> h.sc, r |-> h.r, vals |-> vals]
          ELSE InOrder(h.sc, Tail(es), Append(vals, h.r.val))

\* Statement k of the last call is a function call (an operator is one) or
\* an array literal, and it was reached.
CallOrArray(k) ==
  /\ Ran /\ Reached(k)
  /\ os_last[k][1] = "Expr" /\ os_last[k][2][1] \in {"FnCall", "Array"}

\* C27: evaluation order: the arguments of a function call and the elements
\* of an array literal are evaluated strictly left to right and all before
\* dispatch; a binary operator, && and || too, is a two-argument call, so
\* both operands are always evaluated; if an argument fails, the later ones
\* are not evaluated and the function is not called.
C27_EvaluationOrder ==
  /\ \A k \in 1..Len(os_last) :
       CallOrArray(k) =>
         LET e == os_last[k][2]
             a == InOrder(Before(k - 1).sc, IF e[1] = "Array" THEN e[2] ELSE e[3], <<>>)
         IN /\ Before(k).sc = a.sc
            /\ ~IsOk(a.r) => Before(k).r = a.r
            /\ (IsOk(a.r) /\ e[1] = "Array") => Before(k).r = Ok(ArrV(a.vals))
            /\ (IsOk(a.r) /\ e[1] = "FnCall") => Before(k).r = Dispatch(e[2], a.vals)
  /\ \A c \in ScenariosOf("order") :
       (RanScenario(c) /\ nreg = Len(HostSetup)) => result = c[3] /\ my_scope = c[4]

\* `pair(o.x, o.update(), o.x)` received the x of before the update and the
\* x of after it.
C27_Witness ==
  /\ calls = 1 /\ last.op = "eval_with_scope" /\ last.T = "array" /\ last.input.ok
  /\ Len(last.input.fns) = 1 /\ Len(os_last) = 2
  /\ CallOrArray(2) /\ os_last[2][2][1] = "FnCall"
  /\ result = Ok(ArrV(<<IntV(1), IntV(1001)>>))
  /\ my_scope = << <<"o", TSV(1001)>> >>

\* `true || (o.update() == ())`: the right operand was evaluated.
C27_WitnessNoShortCircuit ==
  /\ calls = 1 /\ last.op = "eval_with_scope" /\ last.T = "bool"
  /\ last.input
       = Prog(<<Let("o", Call0("new_ts")),
                SExpr(Bin("||", True, Bin("==", Dot(Id("o"), Call0("update")), Unit)))>>)
  /\ result = Ok(BoolV(TRUE)) /\ my_scope = << <<"o", TSV(1001)>> >>

\* What consume_with_scope returns when eval_with_scope returns r: the
\* error of a statement, else Ok(()).
WithoutResult(r) ==
  IF IsOk(r) \/ (r.k = "Err" /\ r.e = "ErrorMismatchOutputType") THEN Ok(UnitV) ELSE r

\* The source of call c parses and has no function of more than ArityCap
\* parameters.
WithinCap(c) ==
  /\ c.input.ok
  /\ \A i \in 1..Len(c.input.fns) : Len(c.input.fns[i].params) <= ArityCap

\* A consume_with_scope step leaves what eval_with_scope would have left
\* from the same engine and scope, and an eval_with_scope step what
\* consume_with_scope would have.
SameEffects ==
  /\ (calls' = calls + 1 /\ last'.op = "consume_with_scope" /\ WithinCap(last')) =>
       \A T \in {"i64", "unit"} :
         LET e == rec_eval_with_scope(Self, my_scope, last'.input, T)
         IN fns' = e.fns /\ my_scope' = e.sc /\ result' = WithoutResult(e.r)
  /\ (calls' = calls + 1 /\ last'.op = "eval_with_scope" /\ WithinCap(last')) =>
       LET c == rec_consume_with_scope(Self, my_scope, last'.input)
       IN fns' = c.fns /\ my_scope' = c.sc /\ c.r = WithoutResult(result')

\* C28: consume_with_scope is eval_with_scope without the result: for every
\* source that defines no function of more than 6 parameters, either one run
\* from the same engine and scope leaves the same registry and the same
\* scope, and consume_with_scope returns Err(e) exactly when a statement of
\* eval_with_scope fails with e and Ok(()) otherwise (it never reports
\* ErrorMismatchOutputType).
C28_ConsumeIsEvalWithoutResult == [][SameEffects]_vars

\* consume_with_scope of `let x = 1; { let x = 2; x = 3 } x` returned Ok(())
\* and left x, where eval_with_scope::<()> reports ErrorMismatchOutputType.
C28_Witness ==
  /\ calls = 1 /\ last.op = "consume_with_scope"
  /\ last.input = Prog(<<Let("x", I(1)),
                         Block(<<Let("x", I(2)), Set(Id("x"), I(3))>>),
                         SExpr(Id("x"))>>)
  /\ result = Ok(UnitV) /\ my_scope = << <<"x", IntV(1)>> >>
  /\ rec_eval_with_scope(Self, prev_scope, last.input, "unit").r
       = Err("ErrorMismatchOutputType", "integer")

\* consume_with_scope returned the error of a statement.
C28_WitnessError ==
  /\ calls = 1 /\ last.op = "consume_with_scope" /\ last.input.ok
  /\ result = Err("ErrorVariableNotFound", "zz") /\ my_scope # <<>>

\* Argument lists of zero, one and two integers.
SomeArgs == {<<>>, <<IntV(5)>>, <<IntV(2), IntV(3)>>}

\* C29: two script functions with the same name overwrite each other
\* regardless of their parameter counts: after the definitions are
\* registered, in one source or across evaluations, only the last definition
\* is reachable under that name; native functions with the same name but
\* different argument types coexist and are each reachable by their own
\* argument types.
C29_SameNameOverwrites ==
  /\ \A k \in DOMAIN fns :
       /\ fns[k].kind = "Int" => k.args = None /\ fns[k].def.name = k.ident
       /\ (fns[k].kind = "Ext" /\ ~fns[k].raw) => k.args = Some(fns[k].tys)
  /\ DefinesWithinCap(last) =>
       \A i \in 1..Len(last.input.fns) : \A args \in SomeArgs :
         FnSpec(last.input.fns[i].name, Some(TypesOf(args))) \notin DOMAIN fns =>
           Dispatch(last.input.fns[i].name, args)
             = call_script(Self, LastDefOf(last.input.fns, i), args).r
  /\ \A c \in ScenariosOf("overwrite") :
       RanScenario(c) => result = c[3] /\ my_scope = c[4]
  /\ (/\ calls = 2 /\ last.op = "eval_with_scope"
      /\ last.input.ok /\ Len(last.input.fns) = 1
      /\ last.input.fns[1].name = "f" /\ last.input.fns[1].params = <<"a", "b">>) =>
       /\ result = Ok(IntV(-1))
       /\ Dispatch("f", <<IntV(5)>>) = Err("ErrorVariableNotFound", "b")
  /\ {FnSpec("+", Some(<<"i64", "i64">>)), FnSpec("+", Some(<<"string", "string">>))}
       \subseteq DOMAIN fns
  /\ Dispatch("+", <<IntV(1), IntV(2)>>) = Ok(IntV(3))
  /\ Dispatch("+", <<StrV("a"), StrV("b")>>) = Ok(StrV("ab"))
  /\ nreg = Len(HostSetup) =>
       /\ Dispatch("update", <<TSV(1)>>) = Ok(UnitV)
       /\ FnSpec("update", None) \in DOMAIN fns =>
            Dispatch("update", <<IntV(5)>>)
              = call_script(Self, fns[FnSpec("update", None)].def, <<IntV(5)>>).r

\* `fn f(x) { x } fn f(x, y) { x * y } let k = 1; f(5)`: the call with one
\* argument reached the definition of two parameters.
C29_Witness ==
  /\ calls = 1 /\ last.op = "eval_with_scope" /\ last.input.ok
  /\ Len(last.input.fns) = 2 /\ Len(last.input.fns[2].params) = 2
  /\ my_scope = << <<"k", IntV(1)>> >>
  /\ result = Err("ErrorVariableNotFound", "y")

\* A later source redefined, with two parameters, the f of one parameter
\* that the first source had defined.
C29_WitnessAcross ==
  /\ calls = 2 /\ last.op = "eval_with_scope" /\ last.input.ok
  /\ Len(last.input.fns) = 1 /\ last.input.fns[1].params = <<"a", "b">>
  /\ result = Ok(IntV(-1))
  /\ my_scope = << <<"a", IntV(1)>> >>

\* The call in top-level statement s, `f(e, ..)` or `a.f(e, ..)`.
CallOf(s) == IF s[2][1] = "Dot" THEN s[2][3] ELSE s[2]

\* Statement s is a call `f(e, ..)` or a method-style call `a.f(e, ..)` on a
\* variable.
IsCallStatement(s) ==
  /\ s[1] = "Expr"
  /\ \/ s[2][1] = "FnCall"
     \/ s[2][1] = "Dot" /\ s[2][2][1] = "Identifier" /\ s[2][3][1] = "FnCall"

\* The values the call of statement s passes in scope sc: for `a.f(e, ..)`
\* the value of a, then those of the arguments.
PassedValues(sc, s) ==
  LET a == rec_eval_items(Self, sc, CallOf(s)[3]).vals
  IN IF s[2][1] = "Dot" THEN <<sc[Newest(sc, s[2][2][2])][2]>> \o a ELSE a

\* In scope sc the call of statement s reaches a script function, and its
\* arguments are evaluated without a failure or an effect.
CallsScript(sc, s) ==
  /\ IsCallStatement(s)
  /\ s[2][1] = "Dot" => Newest(sc, s[2][2][2]) # 0
  /\ IsOk(rec_eval_items(Self, sc, CallOf(s)[3]).r)
  /\ rec_eval_items(Self, sc, CallOf(s)[3]).sc = sc
  /\ FnSpec(CallOf(s)[2], Some(TypesOf(PassedValues(sc, s)))) \notin DOMAIN fns
  /\ FnSpec(CallOf(s)[2], None) \in DOMAIN fns
  /\ fns[FnSpec(CallOf(s)[2], None)].kind = "Int"

\* What the body of the function called by s returns when it is run in a
\* scope that holds the parameters only, each with the value passed for it.
BodyAlone(sc, s) ==
  LET f == fns[FnSpec(CallOf(s)[2], None)].def
      v == PassedValues(sc, s)
      n == IF Len(f.params) < Len(v) THEN Len(f.params) ELSE Len(v)
      b == rec_eval_stmt([Self EXCEPT !.d = @ - 1],
                         [i \in 1..n |-> <<f.params[i], v[i]>>], f.body)
  IN IF b.r.k = "Err" /\ b.r.e = "Return" THEN Ok(b.r.val) ELSE b.r

\* C30: a script function call is isolated from its caller: the body runs in
\* a fresh scope that holds only the parameters, so a caller variable that is
\* not a parameter is ErrorVariableNotFound inside the body, and no
\* assignment, index assignment or dot set performed inside the body (also on
\* a parameter, and also when the function is called method-style as
\* `a.f()`) changes any binding of the caller's scope.
C30_CallIsolated ==
  /\ Ran =>
       \A k \in 1..Len(os_last) :
         (Reached(k) /\ CallsScript(Before(k - 1).sc, os_last[k])) =>
           /\ Before(k).sc = Before(k - 1).sc
           /\ Before(k).r = BodyAlone(Before(k - 1).sc, os_last[k])
  /\ \A c \in ScenariosOf("isolated") :
       (RanScenario(c) /\ nreg = Len(HostSetup)) => result = c[3] /\ my_scope = c[4]

\* `fn f(x) { x = 9; } let a = 1; a.f(); a`: the body assigned to its
\* parameter and a is still 1.
C30_Witness ==
  /\ calls = 1 /\ last.op = "eval_with_scope" /\ last.input.ok
  /\ Len(os_last) = 3 /\ os_last[2] = SExpr(Dot(Id("a"), Call0("f")))
  /\ last.input.fns = <<FnDef("f", <<"x">>, Block(<<Set(Id("x"), I(9))>>))>>
  /\ CallsScript(Before(1).sc, os_last[2])
  /\ result = Ok(IntV(1)) /\ my_scope = << <<"a", IntV(1)>> >>

\* `fn g(p) { p.x = 5; p.x } let o = new_ts(); let r = o.g(); o.x`: the body
\* set the property of its copy to 5 and o.x is still 1.
C30_WitnessDotSet ==
  /\ calls = 1 /\ last.op = "eval_with_scope" /\ nreg = Len(HostSetup)
  /\ result = Ok(IntV(1))
  /\ my_scope = << <<"o", TSV(1)>>, <<"r", IntV(5)>> >>

\* `fn f(x) { z = 2; } let z = 1; f(5)`: the body could not see the z of
\* its caller.
C30_WitnessNotVisible ==
  /\ calls = 1 /\ last.op = "eval_with_scope" /\ last.input.ok
  /\ Len(os_last) = 2 /\ CallsScript(Before(1).sc, os_last[2])
  /\ result = Err("ErrorVariableNotFound", "z")
  /\ my_scope = << <<"z", IntV(1)>> >>

\* The body of definition f, run with its parameters bound to args, ends in
\* LoopBreak.
BodyBreaks(f, args) ==
  LET n == IF Len(f.params) < Len(args) THEN Len(f.params) ELSE Len(args)
  IN rec_eval_stmt([Self EXCEPT !.d = @ - 1],
                   [i \in 1..n |-> <<f.params[i], args[i]>>], f.body).r = ErrLoopBreak

\* C31: the break signal crosses the function-call boundary: a `break`
\* executed in a script function body outside any loop of that body is not
\* caught by the call (only Return is), so it propagates to the caller and
\* terminates the caller's nearest enclosing loop, or reaches the host when
\* the caller has none.
C31_BreakCrossesCalls ==
  /\ \A k \in DOMAIN fns : \A args \in SomeArgs :
       (/\ fns[k].kind = "Int"
        /\ FnSpec(k.ident, Some(TypesOf(args))) \notin DOMAIN fns
        /\ BodyBreaks(fns[k].def, args))
         => Dispatch(k.ident, args) = ErrLoopBreak
  /\ Ran =>
       \A k \in 1..Len(os_last) :
         (/\ Reached(k) /\ CallsScript(Before(k - 1).sc, os_last[k])
          /\ BodyBreaks(fns[FnSpec(CallOf(os_last[k])[2], None)].def,
                        PassedValues(Before(k - 1).sc, os_last[k])))
           => Before(k).r = ErrLoopBreak /\ result = ErrLoopBreak
  /\ \A c \in ScenariosOf("break_fn") :
       RanScenario(c) => result = c[3] /\ my_scope = c[4]

\* `fn b(x) { break; } let n = 0; while true { n = n + 1; b(1); n = n + 10; } n`:
\* the break of b ended the loop of the caller in its first round.
C31_Witness ==
  /\ calls = 1 /\ last.op = "eval_with_scope" /\ last.input.ok
  /\ Len(os_last) = 3 /\ os_last[2][1] = "While"
  /\ last.input.fns = <<FnDef("b", <<"x">>, Block(<<Break>>))>>
  /\ BodyBreaks(last.input.fns[1], <<IntV(1)>>)
  /\ result = Ok(IntV(1)) /\ my_scope = << <<"n", IntV(1)>> >>

\* `fn b(x) { break; } let k = 1; b(1); k = k + 1`: the caller had no loop and
\* the host received LoopBreak.
C31_WitnessHost ==
  /\ calls = 1 /\ last.op = "eval_with_scope" /\ last.input.ok
  /\ Len(os_last) = 3 /\ CallsScript(Before(1).sc, os_last[2])
  /\ last.input.fns = <<FnDef("b", <<"x">>, Block(<<Break>>))>>
  /\ result = ErrLoopBreak /\ my_scope = << <<"k", IntV(1)>> >>

\* Statement k of the last call is reached and is `a.m(args)` or
\* `a[i].m(args)` with i a literal, a bound and, for `a[i]`, bound to an
\* array that has a cell i.
MethodCallAt(k) ==
  /\ Ran /\ Reached(k)
  /\ os_last[k][1] = "Expr" /\ os_last[k][2][1] = "Dot"
  /\ os_last[k][2][3][1] = "FnCall"
  /\ LET recv == os_last[k][2][2]
         s0 == Before(k - 1).sc
     IN /\ recv[1] \in {"Identifier", "Index"}
        /\ Newest(s0, recv[2]) # 0
        /\ recv[1] = "Index" =>
             /\ recv[3][1] = "IntConst"
             /\ s0[Newest(s0, recv[2])][2].t = "array"
             /\ recv[3][2] \in 0..(Len(s0[Newest(s0, recv[2])][2].v) - 1)

\* The slot of the receiver variable of statement k, and the walk of the
\* method call on the scratch copy taken before the arguments are evaluated.
SlotAt(k) == Newest(Before(k - 1).sc, os_last[k][2][2][2])

WalkAt(k) ==
  LET recv == os_last[k][2][2]
      held == Before(k - 1).sc[SlotAt(k)][2]
  IN rec_get_dot_val_helper(Self, Before(k - 1).sc,
                            IF recv[1] = "Index" THEN held.v[recv[3][2] + 1] ELSE held,
                            os_last[k][2][3])

\* The arguments of the method call of statement k change the binding of
\* the receiver variable.
ArgsChangeReceiver(k) ==
  /\ MethodCallAt(k) /\ ~Unwinds(WalkAt(k).r)
  /\ WalkAt(k).sc[SlotAt(k)] # Before(k - 1).sc[SlotAt(k)]

\* C32 as stated: during a dot expression on receiver variable a (plain or
\* indexed receiver), changes made to the binding of a while the method-call
\* arguments are evaluated are discarded: after `a.m(args)` or `a[i].m(args)`
\* the binding of a is what it was before the arguments were evaluated, but
\* for the scratch copy stored back.
C32_ArgsChangesDiscarded ==
  \A k \in 1..Len(os_last) :
    (MethodCallAt(k) /\ ~Unwinds(WalkAt(k).r)) =>
      LET recv == os_last[k][2][2]
          held == Before(k - 1).sc[SlotAt(k)][2]
      IN /\ ~Unwinds(Before(k).r)
         /\ Before(k).sc[SlotAt(k)][2]
              = IF recv[1] = "Index"
                THEN ArrV([held.v EXCEPT ![recv[3][2] + 1] = WalkAt(k).this])
                ELSE WalkAt(k).this

\* C32, amended: for a plain receiver a the write-back stores the scratch
\* copy taken before argument evaluation (as mutated by the walk) over
\* whatever a holds, so after `a.m(args)` the binding of a reflects nothing
\* that args did to a.  For an indexed receiver `a[i]` the write-back stores
\* the scratch copy into cell i of the array a holds at that moment: what
\* args did to cell i is discarded, what they did to the other cells (or a
\* new array assigned to a) remains, and the engine aborts when a then holds
\* no array with a cell i.
C32_WriteBackAfterArgs ==
  /\ \A k \in 1..Len(os_last) :
       (MethodCallAt(k) /\ ~Unwinds(WalkAt(k).r)) =>
         LET recv == os_last[k][2][2]
             now == WalkAt(k).sc[SlotAt(k)][2]
         IN IF recv[1] = "Identifier"
            THEN Before(k).sc[SlotAt(k)][2] = WalkAt(k).this
            ELSE IF now.t = "array" /\ recv[3][2] < Len(now.v)
            THEN Before(k).sc[SlotAt(k)][2]
                   = ArrV([now.v EXCEPT ![recv[3][2] + 1] = WalkAt(k).this])
            ELSE Before(k).r = Panic
  /\ \A c \in ScenariosOf("args_change") :
       (RanScenario(c) /\ nreg = Len(HostSetup)) => result = c[3] /\ my_scope = c[4]

\* `fn f(x, y) { y } let a = [1, 2, 3]; a[0].f(a[1] = 9); a[1]`: the argument
\* changed another cell of a and the change is still there.
C32_Witness ==
  /\ calls = 1 /\ last.op = "eval_with_scope" /\ last.input.ok
  /\ Len(os_last) = 3 /\ ArgsChangeReceiver(2)
  /\ os_last[2][2][2][1] = "Index"
  /\ result = Ok(IntV(9))
  /\ my_scope = << <<"a", ArrV(<<IntV(1), IntV(9), IntV(3)>>)>> >>

\* `fn f(x, y) { y } let a = 1; a.f(a = 5); a`: the argument assigned 5 to a
\* and a is 1 after the call.
C32_WitnessPlain ==
  /\ calls = 1 /\ last.op = "eval_with_scope" /\ last.input.ok
  /\ Len(os_last) = 3 /\ ArgsChangeReceiver(2)
  /\ os_last[2][2][2][1] = "Identifier"
  /\ WalkAt(2).sc = << <<"a", IntV(5)>> >>
  /\ result = Ok(IntV(1)) /\ my_scope = << <<"a", IntV(1)>> >>

\* `let a = [1, 2, 3]; a[0].f(a = 5)`: a held no array at write-back time.
C32_WitnessAbort ==
  /\ calls = 1 /\ last.op = "eval_with_scope" /\ last.input.ok
  /\ Len(os_last) = 3 /\ ArgsChangeReceiver(2)
  /\ result = Panic /\ aborted

\* Expression recv is a variable, or a cell `a[i]` with i a literal, that
\* scope sc binds.
BoundReceiver(sc, recv) ==
  /\ recv[1] \in {"Identifier", "Index"}
  /\ Newest(sc, recv[2]) # 0
  /\ recv[1] = "Index" =>
       /\ recv[3][1] = "IntConst"
       /\ sc[Newest(sc, recv[2])][2].t = "array"
       /\ recv[3][2] \in 0..(Len(sc[Newest(sc, recv[2])][2].v) - 1)

\* Scope sc with v stored where receiver recv is.
StoredBack(sc, recv, v) ==
  LET p == Newest(sc, recv[2])
  IN IF recv[1] = "Index"
     THEN [sc EXCEPT ![p] = <<@[1], ArrV([@[2].v EXCEPT ![recv[3][2] + 1] = v])>>]
     ELSE [sc EXCEPT ![p] = <<@[1], v>>]

\* Statement k is the dot expression `recv.rhs`, reached with recv bound:
\* the walk of rhs on the scratch copy of the receiver.
GetWalk(k) ==
  rec_get_dot_val_helper(Self, Before(k - 1).sc,
                         Receiver(Before(k - 1).sc, os_last[k][2][2]), os_last[k][2][3])

IsGetAt(k) ==
  /\ Ran /\ Reached(k)
  /\ os_last[k][1] = "Expr" /\ os_last[k][2][1] = "Dot"
  /\ BoundReceiver(Before(k - 1).sc, os_last[k][2][2])

\* Statement k is the dot assignment `recv.rhs = v` with v a literal,
\* reached with recv bound: the set walk on the scratch copy.
SetWalk(k) ==
  rec_set_dot_val_helper(Self, Receiver(Before(k - 1).sc, os_last[k][2][2][2]),
                         os_last[k][2][2][3],
                         rec_eval_expr(Self, Before(k - 1).sc, os_last[k][2][3]).r.val)

IsSetAt(k) ==
  /\ Ran /\ Reached(k)
  /\ os_last[k][1] = "Expr" /\ os_last[k][2][1] = "Assignment"
  /\ os_last[k][2][2][1] = "Dot"
  /\ os_last[k][2][3][1] \in {"IntConst", "True", "False"}
  /\ BoundReceiver(Before(k - 1).sc, os_last[k][2][2][2])

\* C33: the dot write-back is unconditional: when a step of a get or set
\* walk fails (unknown getter, setter or method, malformed dot shape, or an
\* error while evaluating arguments), the error is returned and the
\* receiver's binding (or array cell) is still overwritten with the scratch
\* copy, including every mutation made by the steps of the walk that ran
\* before the failure.
C33_WriteBackOnFailure ==
  /\ \A k \in 1..Len(os_last) :
       /\ (IsGetAt(k) /\ GetWalk(k).r.k = "Err") =>
            /\ Before(k).r = GetWalk(k).r /\ result = GetWalk(k).r
            /\ GetWalk(k).sc = Before(k - 1).sc =>
                 Before(k).sc
                   = StoredBack(Before(k - 1).sc, os_last[k][2][2], GetWalk(k).this)
       /\ (IsSetAt(k) /\ SetWalk(k).r.k = "Err") =>
            /\ Before(k).r = SetWalk(k).r /\ result = SetWalk(k).r
            /\ Before(k).sc
                 = StoredBack(Before(k - 1).sc, os_last[k][2][2][2], SetWalk(k).this)
  /\ \A c \in ScenariosOf("failed_walk") :
       (RanScenario(c) /\ nreg = Len(HostSetup)) => result = c[3] /\ my_scope = c[4]

\* `let o = new_holder(); o.touch.nope`: get$touch changed the copy of o,
\* get$nope was not found, and o holds the changed copy.
C33_Witness ==
  /\ calls = 1 /\ last.op = "eval_with_scope" /\ last.input.ok
  /\ Len(os_last) = 2 /\ IsGetAt(2)
  /\ os_last[2][2][3] = Dot(Id("touch"), Id("nope"))
  /\ GetWalk(2).r = Err("ErrorFunctionNotFound", "get$nope (<unknown> TypeId(Box<Any>))")
  /\ GetWalk(2).this # Receiver(Before(1).sc, os_last[2][2][2])
  /\ Before(1).sc = << <<"o", HolderV(<<IntV(1), IntV(2)>>, TSV(1))>> >>
  /\ my_scope = << <<"o", HolderV(<<IntV(1), IntV(2)>>, TSV(1001))>> >>

\* `let a = [new_holder()]; a[0].touch.nope = 5`: the set walk failed at
\* set$nope and the cell holds the copy that get$touch changed.
C33_WitnessSetCell ==
  /\ calls = 1 /\ last.op = "eval_with_scope" /\ last.input.ok
  /\ Len(os_last) = 2 /\ IsSetAt(2) /\ os_last[2][2][2][2][1] = "Index"
  /\ SetWalk(2).r.k = "Err"
  /\ SetWalk(2).this # Receiver(Before(1).sc, os_last[2][2][2][2])
  /\ my_scope = << <<"a", ArrV(<<HolderV(<<IntV(1), IntV(2)>>, TSV(1001))>>)>> >>

\* What the native registered for name m and the type of v does to v as
\* its only argument.
NativeOn(m, v) == NativeCall(fns[FnSpec(m, Some(<<type_id(v)>>))], <<v>>)

\* Statement k is the plain call `m(a)` or `m(a[i])`, reached with the
\* argument bound and a native registered for m and the argument's type.
IsPlainNativeCall(k) ==
  /\ Ran /\ Reached(k)
  /\ os_last[k][1] = "Expr" /\ os_last[k][2][1] = "FnCall"
  /\ Len(os_last[k][2][3]) = 1
  /\ BoundReceiver(Before(k - 1).sc, os_last[k][2][3][1])
  /\ FnSpec(os_last[k][2][2],
            Some(<<type_id(Receiver(Before(k - 1).sc, os_last[k][2][3][1]))>>))
       \in DOMAIN fns

\* Statement k is the method-style call `a.m()` or `a[i].m()`, reached with
\* the receiver bound and a native registered for m and the receiver's type.
IsMethodNativeCall(k) ==
  /\ IsGetAt(k)
  /\ os_last[k][2][3][1] = "FnCall" /\ os_last[k][2][3][3] = <<>>
  /\ FnSpec(os_last[k][2][3][2],
            Some(<<type_id(Receiver(Before(k - 1).sc, os_last[k][2][2]))>>))
       \in DOMAIN fns

\* C34: a native function that mutates its first argument changes a variable
\* only when called method-style: the plain call `m(a)` passes a temporary
\* copy and leaves the binding of a unchanged, whereas `a.m()` stores the
\* mutated receiver back into a.
C34_MutationNeedsMethodStyle ==
  /\ \A k \in 1..Len(os_last) :
       /\ IsPlainNativeCall(k) =>
            /\ Before(k).sc = Before(k - 1).sc
            /\ Before(k).r
                 = NativeOn(os_last[k][2][2],
                            Receiver(Before(k - 1).sc, os_last[k][2][3][1])).r
       /\ IsMethodNativeCall(k) =>
            LET c == NativeOn(os_last[k][2][3][2],
                              Receiver(Before(k - 1).sc, os_last[k][2][2]))
            IN /\ Before(k).sc = StoredBack(Before(k - 1).sc, os_last[k][2][2], c.args[1])
               /\ Before(k).r = c.r
  /\ \A c \in ScenariosOf("method_style") :
       (RanScenario(c) /\ nreg = Len(HostSetup)) => result = c[3] /\ my_scope = c[4]

\* `let o = new_ts(); update(o); o.update(); update(o); o.x` gave 1001: of
\* the three calls of the mutating native only `o.update()` changed o.
C34_Witness ==
  /\ calls = 1 /\ last.op = "eval_with_scope" /\ last.input.ok
  /\ Len(os_last) = 5
  /\ IsPlainNativeCall(2) /\ IsMethodNativeCall(3) /\ IsPlainNativeCall(4)
  /\ NativeOn("update", TSV(1)).args[1] = TSV(1001)
  /\ Before(2).sc = << <<"o", TSV(1)>> >>
  /\ Before(3).sc = << <<"o", TSV(1001)>> >>
  /\ Before(4).sc = << <<"o", TSV(1001)>> >>
  /\ result = Ok(IntV(1001))

\* `let a = [new_ts()]; update(a[0]); a[0].x` gave 1: the plain call on a
\* cell left the cell as it was.
C34_WitnessCell ==
  /\ calls = 1 /\ last.op = "eval_with_scope" /\ last.input.ok
  /\ Len(os_last) = 3 /\ IsPlainNativeCall(2) /\ os_last[2][2][3][1][1] = "Index"
  /\ result = Ok(IntV(1)) /\ my_scope = << <<"a", ArrV(<<TSV(1)>>)>> >>

\* Statement k is `a.p.m()` (or `a[i].p.m()`), reached with the receiver
\* bound and get$p found for it.
IsChainCall(k) ==
  /\ IsGetAt(k)
  /\ os_last[k][2][3][1] = "Dot"
  /\ os_last[k][2][3][2][1] = "Identifier"
  /\ os_last[k][2][3][3][1] = "FnCall" /\ os_last[k][2][3][3][3] = <<>>
  /\ IsOk(Dispatch("get$" \o os_last[k][2][3][2][2],
                    <<Receiver(Before(k - 1).sc, os_last[k][2][2])>>))

\* get$p called on the scratch copy of the receiver of statement k.
GetterAt(k) ==
  rec_call_fn_raw(Self, "get$" \o os_last[k][2][3][2][2],
                  <<Receiver(Before(k - 1).sc, os_last[k][2][2])>>)

\* m called on the value that get$p returned.
MethodAt(k) == rec_call_fn_raw(Self, os_last[k][2][3][3][2], <<GetterAt(k).r.val>>)

\* C35: in a get chain `a.p.m()` the receiver of m is the value returned by
\* get$p, and a mutation that m makes on it is not propagated: no set$p is
\* called on the get path, so after the expression the binding of a differs
\* from before only by what get$p itself did to its receiver, unlike the set
\* path `a.p.q = v`, which writes the intermediate back through set$p.
C35_GetChainDoesNotSetBack ==
  /\ \A k \in 1..Len(os_last) :
       (IsChainCall(k) /\ ~Unwinds(MethodAt(k).r)) =>
         /\ Before(k).r = MethodAt(k).r
         /\ Before(k).sc
              = StoredBack(Before(k - 1).sc, os_last[k][2][2], GetterAt(k).args[1])
  /\ \A c \in ScenariosOf("get_chain") :
       (RanScenario(c) /\ nreg = Len(HostSetup)) => result = c[3] /\ my_scope = c[4]
  /\ (calls = 1 /\ nreg = Len(HostSetup) /\ last.op = "eval_with_scope"
      /\ last.input
           = Prog(<<Let("o", Call0("new_holder")),
                    Set(Dot(Id("o"), Dot(Id("ts"), Id("x"))), I(5)),
                    SExpr(Dot(Id("o"), Dot(Id("ts"), Id("x"))))>>))
       => my_scope = << <<"o", HolderV(<<IntV(1), IntV(2)>>, TSV(5))>> >>

\* `let o = new_holder(); o.ts.update(); o.ts.x` gave 1: update changed the
\* value that get$ts returned, a set$ts is registered, and o is as it was.
C35_Witness ==
  /\ calls = 1 /\ last.op = "eval_with_scope" /\ last.input.ok
  /\ Len(os_last) = 3 /\ IsChainCall(2) /\ os_last[2][2][2] = Id("o")
  /\ os_last[2][2][3] = Dot(Id("ts"), Call0("update"))
  /\ MethodAt(2).args[1] = TSV(1001) /\ GetterAt(2).r.val = TSV(1)
  /\ FnSpec("set$ts", Some(<<"Holder", "TS">>)) \in DOMAIN fns
  /\ result = Ok(IntV(1))
  /\ my_scope = << <<"o", HolderV(<<IntV(1), IntV(2)>>, TSV(1))>> >>

\* `let o = new_holder(); o.touch.update(); o.ts.x` gave 1001: o changed by
\* what get$touch did, not by what update did.
C35_WitnessGetterChanges ==
  /\ calls = 1 /\ last.op = "eval_with_scope" /\ last.input.ok
  /\ Len(os_last) = 3 /\ IsChainCall(2)
  /\ os_last[2][2][3] = Dot(Id("touch"), Call0("update"))
  /\ MethodAt(2).args[1] = TSV(2001)
  /\ result = Ok(IntV(1001))

\* Statement k of the last call on its own, begun in the scope that the
\* statements before it left.
AloneAt(k) == rec_eval_stmt(Self, Before(k - 1).sc, os_last[k])

\* Statement k of the last *_with_scope call is reached and fails.
FailsAt(k) ==
  /\ last.op \in {"eval_with_scope", "consume_with_scope"} /\ DefinesWithinCap(last)
  /\ Reached(k) /\ AloneAt(k).r.k = "Err"

\* C36: there is no rollback on error: when the k-th top-level statement of
\* a source fails, eval_with_scope / consume_with_scope return that error,
\* statements after k are not executed, and every binding pushed and every
\* assignment made by statements 1..k-1 remains in the caller's scope.
C36_NoRollback ==
  /\ \A k \in 1..Len(os_last) :
       FailsAt(k) =>
         /\ result = AloneAt(k).r
         /\ my_scope = AloneAt(k).sc
         /\ \A j \in 1..(k - 1) : IsOk(Before(j).r)
         /\ os_last[k] \in {SExpr(Id("zz")), Let("u", Id("zz"))} =>
              my_scope = Before(k - 1).sc
  /\ \A c \in ScenariosOf("no_rollback") :
       /\ (RanScenario(c) /\ nreg <= Len(HostSetup))
            => result = c[3] /\ my_scope = c[4]
       /\ (/\ last.op = "consume_with_scope" /\ last.input = c[2] /\ prev_scope = <<>>
           /\ nreg <= Len(HostSetup))
            => result = c[3] /\ my_scope = c[4]

\* consume_with_scope of `let x = 1; x = 2; let y = [1, 2, 3]; y[0] = 7; zz;
\* x = 9; let w = 1` failed at zz: x is 2, y[0] is 7, and neither `x = 9` nor
\* `let w` has run, though they could have.
C36_Witness ==
  /\ calls = 1 /\ last.op = "consume_with_scope" /\ last.input.ok
  /\ Len(os_last) = 7 /\ FailsAt(5)
  /\ result = Err("ErrorVariableNotFound", "zz")
  /\ my_scope = << <<"x", IntV(2)>>, <<"y", ArrV(<<IntV(7), IntV(2), IntV(3)>>)>> >>
  /\ IsOk(rec_eval_stmt(Self, my_scope, os_last[6]).r)
  /\ rec_eval_stmt(Self, my_scope, os_last[6]).sc # my_scope

\* The same source with eval_with_scope.
C36_WitnessEval ==
  /\ calls = 1 /\ last.op = "eval_with_scope" /\ last.input.ok
  /\ Len(os_last) = 7 /\ FailsAt(5)
  /\ result = Err("ErrorVariableNotFound", "zz")
  /\ my_scope = << <<"x", IntV(2)>>, <<"y", ArrV(<<IntV(7), IntV(2), IntV(3)>>)>> >>

\* The first n elements of a sequence, all of them when it has fewer.
Prefix(q, n) == SubSeq(q, 1, IF n < Len(q) THEN n ELSE Len(q))

\* What the body of definition f returns when it is run in the scope that
\* pairs, in order, as many parameters and arguments as both lists have.
PairedBody(f, args) ==
  LET ps == Prefix(f.params, Len(args))
      b == rec_eval_stmt([Self EXCEPT !.d = @ - 1],
                         [i \in 1..Len(ps) |-> <<ps[i], args[i]>>], f.body).r
  IN IF b.k = "Err" /\ b.e = "Return" THEN Ok(b.val) ELSE b

\* Argument lists of zero to three integers.
MoreArgs == SomeArgs \cup {<<IntV(1), IntV(2), IntV(3)>>}

\* C37: a script function called with a number of arguments different from
\* its parameter count raises no arity error: parameters and arguments are
\* paired in order up to the shorter of the two lists, extra arguments are
\* ignored, and a parameter left without an argument is simply unbound in the
\* body (ErrorVariableNotFound only if and when the body reads it).
C37_NoArityError ==
  /\ \A k \in DOMAIN fns : \A args \in MoreArgs :
       (/\ fns[k].kind = "Int"
        /\ FnSpec(k.ident, Some(TypesOf(args))) \notin DOMAIN fns)
         => /\ Dispatch(k.ident, args) = PairedBody(fns[k].def, args)
            /\ Dispatch(k.ident, args).e # "ErrorFunctionArgMismatch"
  /\ \A c \in ScenariosOf("arity") :
       RanScenario(c) => result = c[3] /\ my_scope = c[4]

\* `fn f(x, y) { if x == 1 { 7 } else { y } } let k = 3; f(1)` gave 7: y had
\* no argument and the body did not read it.
C37_Witness ==
  /\ calls = 1 /\ last.op = "eval_with_scope" /\ last.input.ok
  /\ Len(last.input.fns) = 1 /\ Len(last.input.fns[1].params) = 2
  /\ Len(os_last) = 2 /\ os_last[2] = SExpr(FnCall("f", <<I(1)>>))
  /\ PairedBody(last.input.fns[1], <<IntV(1)>>) = Ok(IntV(7))
  /\ PairedBody(last.input.fns[1], <<IntV(2)>>) = Err("ErrorVariableNotFound", "y")
  /\ result = Ok(IntV(7)) /\ my_scope = << <<"k", IntV(3)>> >>

\* `fn f(x) { x } let k = 2; f(1, 2, 3)` gave 1: two arguments too many.
C37_WitnessExtra ==
  /\ calls = 1 /\ last.op = "eval_with_scope" /\ last.input.ok
  /\ Len(last.input.fns) = 1 /\ Len(last.input.fns[1].params) = 1
  /\ Len(os_last) = 2 /\ os_last[2] = SExpr(FnCall("f", <<I(1), I(2), I(3)>>))
  /\ result = Ok(IntV(1)) /\ my_scope = << <<"k", IntV(2)>> >>

\* The names that a scope binds, in its order.
Names(sc) == [i \in 1..Len(sc) |-> sc[i][1]]

\* Expressions of every form, on names that the sources bind and on one
\* that none binds.
ProbeExprs ==
  { Id("x"), Id("zz"), Index("a", I(0)), Index("y", I(7)),
    Assignment(Id("x"), I(0)), Assignment(Id("a"), Unit), Assignment(Id("zz"), I(0)),
    Assignment(Index("a", I(0)), I(1)), Assignment(Index("y", True), I(1)),
    Assignment(I(1), I(2)),
    Assignment(Dot(Id("o"), Id("x")), I(5)),
    Assignment(Dot(Id("o"), Dot(Id("touch"), Id("nope"))), I(5)),
    Assignment(Dot(Index("a", I(0)), Id("x")), I(5)),
    Dot(Id("o"), Call0("update")), Dot(Id("o"), Dot(Id("touch"), Id("nope"))),
    Dot(Index("a", I(0)), Call0("update")), Dot(Id("x"), Call0("f")),
    Dot(Id("o"), FnCall("f", <<Assignment(Id("o"), I(5))>>)),
    FnCall("f", <<Id("x")>>), FnCall("update", <<Id("o")>>),
    FnCall("nofn", <<Assignment(Id("x"), I(3))>>),
    Array(<<Id("x"), Assignment(Id("x"), I(4)), Id("zz")>>),
    Bin("+", Id("x"), I(1)) }

\* C38: evaluating an expression never changes the shape of the scope: for
\* every expression (including assignments, calls and dot expressions,
\* successful or failing) the scope has the same length and the same names in
\* the same order afterwards, only bound values may differ; hence the slot
\* index found before a dot walk still denotes the same binding at
\* write-back time.
C38_ExpressionsKeepShape ==
  /\ \A e \in ProbeExprs :
       Names(rec_eval_expr(Self, my_scope, e).sc) = Names(my_scope)
  /\ Ran =>
       \A k \in 1..Len(os_last) :
         /\ (Reached(k) /\ os_last[k][1] = "Expr") =>
              Names(AloneAt(k).sc) = Names(Before(k - 1).sc)
         /\ (Reached(k) /\ os_last[k][1] = "Var" /\ Len(os_last[k][3]) = 1) =>
              Names(rec_eval_expr(Self, Before(k - 1).sc, os_last[k][3][1]).sc)
                = Names(Before(k - 1).sc)
         /\ (IsGetAt(k) /\ ~Unwinds(GetWalk(k).r)) =>
              /\ Names(GetWalk(k).sc) = Names(Before(k - 1).sc)
              /\ Newest(GetWalk(k).sc, os_last[k][2][2][2])
                   = Newest(Before(k - 1).sc, os_last[k][2][2][2])

\* With x and y bound, in this order, `x = 0` succeeded, changed the value
\* of x and left the names as they were, and `zz = 0` failed.
C38_Witness ==
  /\ Names(my_scope) = <<"x", "y">>
  /\ IsOk(rec_eval_expr(Self, my_scope, Assignment(Id("x"), I(0))).r)
  /\ rec_eval_expr(Self, my_scope, Assignment(Id("x"), I(0))).sc # my_scope
  /\ Names(rec_eval_expr(Self, my_scope, Assignment(Id("x"), I(0))).sc) = <<"x", "y">>
  /\ ~IsOk(rec_eval_expr(Self, my_scope, Assignment(Id("zz"), I(0))).r)

\* `fn f(x, y) { y } let a = 1; a.f(a = 5); a`: the argument of the method
\* call assigned to a during the walk and the slot of a is the same.
C38_WitnessWalk ==
  /\ calls = 1 /\ last.op = "eval_with_scope" /\ last.input.ok
  /\ Len(os_last) = 3 /\ IsGetAt(2) /\ ArgsChangeReceiver(2)
  /\ os_last[2][2][2] = Id("a")
  /\ GetWalk(2).sc # Before(1).sc /\ Names(GetWalk(2).sc) = <<"a">>
  /\ my_scope = << <<"a", IntV(1)>> >>

====
